---- MODULE Spec2Model ----
(***************************************************************************)
(* YouTube Playlist Cleaner: the content script (src/src/content.ts) as a  *)
(* state machine.  Text is modelled as a sequence of one-character         *)
(* strings, so that trimming, lower-casing, splitting and pattern matching *)
(* are computed as the code computes them.                                 *)
(***************************************************************************)
EXTENDS Integers, Sequences, FiniteSets, TLC

(***************************************************************************)
(* Text helpers (JavaScript String methods used by the content script)     *)
(***************************************************************************)

\* "no value": undefined / null on the JavaScript side
NoValue == <<"<undefined>">>

UpperChars == <<"A","B","C","D","E","F","G","H","I","J","K","L","M",
                "N","O","P","Q","R","S","T","U","V","W","X","Y","Z">>
LowerChars == <<"a","b","c","d","e","f","g","h","i","j","k","l","m",
                "n","o","p","q","r","s","t","u","v","w","x","y","z">>
DigitChars == <<"0","1","2","3","4","5","6","7","8","9">>

\* String.prototype.toLowerCase on one character
LowerChar(c) ==
  IF \E i \in 1..26 : UpperChars[i] = c
    THEN LowerChars[CHOOSE i \in 1..26 : UpperChars[i] = c]
    ELSE c

\* String.prototype.toLowerCase
ToLowerCase(s) == [i \in 1..Len(s) |-> LowerChar(s[i])]

\* white space as String.prototype.trim and the regex class \s see it
IsSpace(c) == c \in {" ", "\t", "\n"}

IsDigit(c) == \E i \in 1..10 : DigitChars[i] = c

DigitVal(c) == (CHOOSE i \in 1..10 : DigitChars[i] = c) - 1

\* the least and the greatest element of a non-empty set of numbers
Least(S)    == CHOOSE i \in S : \A j \in S : i <= j
Greatest(S) == CHOOSE i \in S : \A j \in S : j <= i

\* s between the first and the last position of keep
TrimTo(s, keep) ==
  IF keep = {} THEN <<>> ELSE SubSeq(s, Least(keep), Greatest(keep))

\* String.prototype.trim
Trim(s) == TrimTo(s, {i \in 1..Len(s) : ~IsSpace(s[i])})

\* does t occur in s starting at position i (1-based)
MatchesAt(s, t, i) ==
  /\ i >= 1
  /\ i + Len(t) - 1 <= Len(s)
  /\ \A k \in 1..Len(t) : s[i + k - 1] = t[k]

\* String.prototype.includes
Includes(s, t) == \E i \in 1..(Len(s) + 1) : MatchesAt(s, t, i)

\* String.prototype.startsWith
StartsWith(s, t) == MatchesAt(s, t, 1)

\* s without the n characters from position i on
CutAt(s, i, n) == SubSeq(s, 1, i - 1) \o SubSeq(s, i + n, Len(s))

\* String.prototype.replace(t, '') with a string pattern: the first occurrence only
RemoveFirst(s, t) ==
  IF ~Includes(s, t) THEN s
  ELSE CutAt(s, Least({k \in 1..(Len(s) + 1) : MatchesAt(s, t, k)}), Len(t))

\* String.prototype.split(',') : the pieces between commas, empty pieces included
RECURSIVE SplitComma(_)
SplitAt(s, i) == <<SubSeq(s, 1, i - 1)>> \o SplitComma(SubSeq(s, i + 1, Len(s)))
SplitComma(s) ==
  IF \A i \in 1..Len(s) : s[i] # ","
    THEN <<s>>
    ELSE SplitAt(s, Least({k \in 1..Len(s) : s[k] = ","}))

\* value of a run of decimal digits
RECURSIVE DigitsValue(_)
DigitsValue(s) ==
  IF Len(s) = 0 THEN 0
  ELSE 10 * DigitsValue(SubSeq(s, 1, Len(s) - 1)) + DigitVal(s[Len(s)])

\* length of the longest run of digits of s starting at position i
RECURSIVE DigitRun(_, _)
DigitRun(s, i) ==
  IF i <= Len(s) /\ IsDigit(s[i]) THEN 1 + DigitRun(s, i + 1) ELSE 0

\* parseInt(s, 10): leading white space skipped, an optional sign, then the
\* longest run of digits; NaN when there is no digit there.
\* the digits of s from position d0 on, n of them, negated if neg
ParseDigits(s, d0, n, neg) ==
  IF n = 0 THEN [nan |-> TRUE, v |-> 0]
  ELSE [nan |-> FALSE,
        v |-> IF neg THEN 0 - DigitsValue(SubSeq(s, d0, d0 + n - 1))
              ELSE DigitsValue(SubSeq(s, d0, d0 + n - 1))]

\* parseInt of s whose first character that is no white space is at st
ParseIntFrom(s, st) ==
  IF st <= Len(s) /\ s[st] \in {"-", "+"}
    THEN ParseDigits(s, st + 1, DigitRun(s, st + 1), s[st] = "-")
    ELSE ParseDigits(s, st, DigitRun(s, st), FALSE)

ParseInt(s) ==
  IF \A i \in 1..Len(s) : IsSpace(s[i]) THEN [nan |-> TRUE, v |-> 0]
  ELSE ParseIntFrom(s, Least({i \in 1..Len(s) : ~IsSpace(s[i])}))

(***************************************************************************)
(* Term Parser: parseFilterString                                          *)
(***************************************************************************)

\* the regex /"([^"]+)"/ tried at position i: the position of the closing
\* quote, or 0 when there is no match starting at i
LeastOrZero(S) == IF S = {} THEN 0 ELSE Least(S)

PhraseEndAt(s, i) ==
  IF i > Len(s) \/ s[i] # "\"" THEN 0
  ELSE IF i + 1 <= Len(s) /\ s[i + 1] # "\""
    THEN LeastOrZero({k \in (i + 2)..Len(s) : s[k] = "\""})
    ELSE 0

\* phraseRegex.exec in a loop (global flag): all matches <<open, close>> from
\* position i on, left to right, each search resuming after the last match
RECURSIVE PhraseMatches(_, _)
PhraseMatchesVia(s, i, e) ==
  IF e # 0 THEN <<(<<i, e>>)>> \o PhraseMatches(s, e + 1)
  ELSE PhraseMatches(s, i + 1)
PhraseMatches(s, i) ==
  IF i > Len(s) THEN <<>> ELSE PhraseMatchesVia(s, i, PhraseEndAt(s, i))

\* the while loop of parseFilterString: terms pushed and the remaining string
\* terms after the phrase (match[1], trimmed) has been looked at
PushPhrase(terms, phrase) ==
  IF phrase # <<>> THEN Append(terms, ToLowerCase(phrase)) ELSE terms

RECURSIVE PhraseLoop(_, _, _, _)
PhraseLoop(s, ms, terms, remaining) ==
  IF ms = <<>> THEN [terms |-> terms, remaining |-> remaining]
  ELSE PhraseLoop(s, Tail(ms),
                  PushPhrase(terms, Trim(SubSeq(s, Head(ms)[1] + 1, Head(ms)[2] - 1))),
                  RemoveFirst(remaining, SubSeq(s, Head(ms)[1], Head(ms)[2])))

NonEmptyTerm(t) == Len(t) > 0

\* split(',').map(trim, toLowerCase).filter(length > 0)
OtherTerms(pieces) ==
  SelectSeq([i \in 1..Len(pieces) |-> ToLowerCase(Trim(pieces[i]))], NonEmptyTerm)

\* TermsOf, were the phrases appended after the other terms
TermsOfPiecesFirst(r) == OtherTerms(SplitComma(r.remaining)) \o r.terms

TermsOf(r) == r.terms \o OtherTerms(SplitComma(r.remaining))

parseFilterString(filterString) ==
  IF filterString = NoValue \/ filterString = <<>> THEN <<>>
  ELSE TermsOf(PhraseLoop(filterString, PhraseMatches(filterString, 1),
                          <<>>, filterString))

(***************************************************************************)
(* Age Normalizer: parseAgeToDays and the filter-side conversion           *)
(***************************************************************************)

Str_day   == <<"d","a","y">>
Str_week  == <<"w","e","e","k">>
Str_month == <<"m","o","n","t","h">>
Str_year  == <<"y","e","a","r">>
Str_ago   == <<"a","g","o">>

NullNumber == [isNull |-> TRUE, v |-> 0]
Number(n)  == [isNull |-> FALSE, v |-> n]

\* length of the run of white space of s starting at position i
RECURSIVE SpaceRun(_, _)
SpaceRun(s, i) ==
  IF i <= Len(s) /\ IsSpace(s[i]) THEN 1 + SpaceRun(s, i + 1) ELSE 0

\* \s+(day|week|month|year) tried at position i: the unit matched, or NoValue
AgeUnitAt(s, u) ==
  IF MatchesAt(s, Str_day, u) THEN Str_day
  ELSE IF MatchesAt(s, Str_week, u) THEN Str_week
  ELSE IF MatchesAt(s, Str_month, u) THEN Str_month
  ELSE IF MatchesAt(s, Str_year, u) THEN Str_year
  ELSE NoValue

AgeUnitAfterRun(s, i, w) == IF w = 0 THEN NoValue ELSE AgeUnitAt(s, i + w)

AgeUnitAfter(s, i) == AgeUnitAfterRun(s, i, SpaceRun(s, i))

\* /(a|an|\d+)\s+(day|week|month|year)/ tried at position i, the alternatives
\* of the first group in the order the regex engine tries them
NoMatch == [ok |-> FALSE, valueStr |-> <<>>, unitStr |-> <<>>]

\* the first group matched the n characters at i: the rest of the pattern
AgeRest(s, i, n, unit) ==
  IF unit # NoValue
    THEN [ok |-> TRUE, valueStr |-> SubSeq(s, i, i + n - 1), unitStr |-> unit]
    ELSE NoMatch

AgeTryWord(s, i, word) ==
  IF MatchesAt(s, word, i)
    THEN AgeRest(s, i, Len(word), AgeUnitAfter(s, i + Len(word)))
    ELSE NoMatch

AgeTryDigits(s, i, n) ==
  IF n > 0 THEN AgeRest(s, i, n, AgeUnitAfter(s, i + n)) ELSE NoMatch

FirstOk(m1, m2, m3) == IF m1.ok THEN m1 ELSE IF m2.ok THEN m2 ELSE m3

AgeMatchAt(s, i) ==
  FirstOk(AgeTryWord(s, i, <<"a">>), AgeTryWord(s, i, <<"a","n">>),
          AgeTryDigits(s, i, DigitRun(s, i)))

AgeMatchAmong(s, hits) == IF hits = {} THEN NoMatch ELSE AgeMatchAt(s, Least(hits))

\* String.prototype.match without the g flag: the leftmost match
AgeMatch(s) == AgeMatchAmong(s, {i \in 1..Len(s) : AgeMatchAt(s, i).ok})

AgeValue(valueStr) ==
  IF valueStr = <<"a">> \/ valueStr = <<"a","n">> THEN 1 ELSE ParseInt(valueStr).v

\* AgeDays, were a month counted as 31 days
AgeDaysLongMonth(value, unitStr) ==
  IF unitStr = Str_day        THEN Number(value)
  ELSE IF unitStr = Str_week  THEN Number(value * 7)
  ELSE IF unitStr = Str_month THEN Number(value * 31)
  ELSE IF unitStr = Str_year  THEN Number(value * 365)
  ELSE NullNumber

\* the switch over the unit
AgeDays(value, unitStr) ==
  IF unitStr = Str_day        THEN Number(value)
  ELSE IF unitStr = Str_week  THEN Number(value * 7)
  ELSE IF unitStr = Str_month THEN Number(value * 30)
  ELSE IF unitStr = Str_year  THEN Number(value * 365)
  ELSE NullNumber

AgeOfMatch(match) ==
  IF ~match.ok THEN NullNumber ELSE AgeDays(AgeValue(match.valueStr), match.unitStr)

parseAgeToDays(ageString) ==
  IF ageString = NoValue \/ ageString = <<>> THEN NullNumber
  ELSE AgeOfMatch(AgeMatch(ageString))

\* the switch of getVideosToDeleteAndReasons over filters.age (null when the
\* filter is absent or its value is 0)
filterAgeInDays(filters) ==
  IF filters.age.present /\ filters.age.value # 0
    THEN IF filters.age.unit = "days"   THEN Number(filters.age.value)
    ELSE IF filters.age.unit = "weeks"  THEN Number(filters.age.value * 7)
    ELSE IF filters.age.unit = "months" THEN Number(filters.age.value * 30)
    ELSE IF filters.age.unit = "years"  THEN Number(filters.age.value * 365)
    ELSE NullNumber
  ELSE NullNumber

(***************************************************************************)
(* Item Extractor: extractVideoData                                        *)
(*                                                                         *)
(* A rendered node is a record                                             *)
(*   id          the node's identity (the element handle)                  *)
(*   titleText   innerText of #video-title, NoValue when there is none     *)
(*   href        the href attribute of #video-title, NoValue when absent   *)
(*   channelText innerText of the channel link, NoValue when absent        *)
(*   watched     the fully-watched overlay is present                      *)
(*   resumeWidth NoValue: no resume overlay; <<>>: overlay without a       *)
(*               #progress width; else the style.width text                *)
(*   meta        textContent of each "#video-info span", in order          *)
(*   menuButton  the node holds a menu button (read by the Executor)       *)
(***************************************************************************)

Str_http    == <<"h","t","t","p">>
Str_slash   == <<"/">>
Str_YouTube == <<"h","t","t","p","s",":","/","/","w","w","w",".",
                 "y","o","u","t","u","b","e",".","c","o","m">>

\* the first element of meta whose text includes 'ago', trimmed
AgeStringAmong(meta, hits) == IF hits = {} THEN NoValue ELSE Trim(meta[Least(hits)])

FindAgeString(meta) ==
  AgeStringAmong(meta, {i \in 1..Len(meta) : Includes(meta[i], Str_ago)})

ExtractVideoUrl(href) ==
  IF href = NoValue \/ href = <<>> THEN NoValue
  ELSE IF StartsWith(href, Str_http) THEN href
  ELSE IF StartsWith(href, Str_slash) THEN Str_YouTube \o href
  ELSE NoValue

\* parseInt(...) || 0
OrZero(n) == IF n.nan THEN 0 ELSE n.v

\* ExtractWatchPercentage, were the watched overlay looked at first
ExtractWatchPercentageWatchedFirst(node) ==
  IF node.watched THEN 100
  ELSE IF node.resumeWidth # NoValue /\ node.resumeWidth # <<>>
    THEN OrZero(ParseInt(node.resumeWidth))
  ELSE 0

ExtractWatchPercentage(node) ==
  IF node.resumeWidth # NoValue
    THEN IF node.resumeWidth # <<>> THEN OrZero(ParseInt(node.resumeWidth)) ELSE 0
    ELSE IF node.watched THEN 100 ELSE 0

\* extractVideoData, were a node without a channel element discarded too
extractVideoDataNeedsChannel(node) ==
  IF node.titleText = NoValue \/ node.channelText = NoValue
    THEN [isNull |-> TRUE]
    ELSE [isNull          |-> FALSE,
          element         |-> node.id,
          title           |-> Trim(node.titleText),
          channelName     |-> Trim(node.channelText),
          isWatched       |-> node.watched \/ node.resumeWidth # NoValue,
          watchPercentage |-> ExtractWatchPercentage(node),
          ageString       |-> FindAgeString(node.meta),
          videoUrl        |-> ExtractVideoUrl(node.href)]

\* extractVideoData, were isWatched read from the watched overlay alone
extractVideoDataWatchedOverlayOnly(node) ==
  IF node.titleText = NoValue
    THEN [isNull |-> TRUE]
    ELSE [isNull          |-> FALSE,
          element         |-> node.id,
          title           |-> Trim(node.titleText),
          channelName     |-> IF node.channelText = NoValue THEN <<>>
                              ELSE Trim(node.channelText),
          isWatched       |-> node.watched,
          watchPercentage |-> ExtractWatchPercentage(node),
          ageString       |-> FindAgeString(node.meta),
          videoUrl        |-> ExtractVideoUrl(node.href)]

\* [isNull |-> TRUE] when the title element is missing, else the VideoData
extractVideoData(node) ==
  IF node.titleText = NoValue
    THEN [isNull |-> TRUE]
    ELSE [isNull          |-> FALSE,
          element         |-> node.id,
          title           |-> Trim(node.titleText),
          channelName     |-> IF node.channelText = NoValue THEN <<>>
                              ELSE Trim(node.channelText),
          isWatched       |-> node.watched \/ node.resumeWidth # NoValue,
          watchPercentage |-> ExtractWatchPercentage(node),
          ageString       |-> FindAgeString(node.meta),
          videoUrl        |-> ExtractVideoUrl(node.href)]

\* videoElements.map(extractVideoData).filter(v => v !== null)
NotNull(v) == ~v.isNull

ExtractAll(nodes) ==
  SelectSeq([i \in 1..Len(nodes) |-> extractVideoData(nodes[i])], NotNull)

(***************************************************************************)
(* Filter Engine: getVideosToDeleteAndReasons                              *)
(*                                                                         *)
(* filters is a record                                                     *)
(*   titleContains, channelName   text or NoValue                          *)
(*   isWatched   [present, enabled, criteria, value]                       *)
(*   deleteUnavailable            BOOLEAN                                  *)
(*   age         [present, value, unit]                                    *)
(***************************************************************************)

Str_Private == <<"[","P","r","i","v","a","t","e"," ","v","i","d","e","o","]">>
Str_Deleted == <<"[","D","e","l","e","t","e","d"," ","v","i","d","e","o","]">>

Reason(kind, term, value, unit) ==
  [kind |-> kind, term |-> term, value |-> value, unit |-> unit]

\* Array.prototype.find over the parsed terms: the first term the field
\* (lower-cased) includes, or NoValue
TermAmong(terms, hits) == IF hits = {} THEN NoValue ELSE terms[Least(hits)]

FindTerm(terms, field) ==
  TermAmong(terms, {i \in 1..Len(terms) : Includes(ToLowerCase(field), terms[i])})

\* WatchedReasons, were the percent boundary exclusive
WatchedReasonsExclusive(video, filters) ==
  IF filters.isWatched.present /\ filters.isWatched.enabled
    THEN IF filters.isWatched.criteria = "any" /\ video.isWatched
           THEN <<Reason("watched-any", <<>>, 0, "")>>
         ELSE IF filters.isWatched.criteria = "percent"
           THEN IF filters.isWatched.value > 0
                   /\ video.watchPercentage > filters.isWatched.value
                  THEN <<Reason("watched-percent", <<>>, filters.isWatched.value, "")>>
                  ELSE <<>>
         ELSE <<>>
    ELSE <<>>

\* the reasons pushed for one video by the watched block
WatchedReasons(video, filters) ==
  IF filters.isWatched.present /\ filters.isWatched.enabled
    THEN IF filters.isWatched.criteria = "any" /\ video.isWatched
           THEN <<Reason("watched-any", <<>>, 0, "")>>
         ELSE IF filters.isWatched.criteria = "percent"
           THEN IF filters.isWatched.value > 0
                   /\ video.watchPercentage >= filters.isWatched.value
                  THEN <<Reason("watched-percent", <<>>, filters.isWatched.value, "")>>
                  ELSE <<>>
         ELSE <<>>
    ELSE <<>>

UnavailableReasons(video, filters) ==
  IF filters.deleteUnavailable
     /\ (video.title = Str_Private \/ video.title = Str_Deleted)
    THEN <<Reason("unavailable", <<>>, 0, "")>>
    ELSE <<>>

\* if (foundTerm) reasons.push(...)
TermReason(kind, foundTerm) ==
  IF foundTerm # NoValue /\ foundTerm # <<>>
    THEN <<Reason(kind, foundTerm, 0, "")>> ELSE <<>>

TermReasons(kind, terms, field) ==
  IF Len(terms) > 0 THEN TermReason(kind, FindTerm(terms, field)) ELSE <<>>

TitleReasons(video, filters) ==
  TermReasons("title", parseFilterString(filters.titleContains), video.title)

ChannelReasons(video, filters) ==
  TermReasons("channel", parseFilterString(filters.channelName), video.channelName)

\* OlderThan, were an item as old as the threshold taken too
OlderThanOrEqual(age, limit) == ~age.isNull /\ age.v >= limit.v

\* videoAgeInDays !== null && videoAgeInDays > filterAgeInDays
OlderThan(age, limit) == ~age.isNull /\ age.v > limit.v

AgeReasonsWithin(video, filters, limit) ==
  IF ~limit.isNull /\ video.ageString # NoValue /\ video.ageString # <<>>
     /\ OlderThan(parseAgeToDays(video.ageString), limit)
    THEN <<Reason("age", <<>>, filters.age.value, filters.age.unit)>>
    ELSE <<>>

AgeReasons(video, filters) == AgeReasonsWithin(video, filters, filterAgeInDays(filters))

\* the reasons list built for one video, in the order of the code's blocks
VideoReasons(video, filters) ==
  WatchedReasons(video, filters) \o UnavailableReasons(video, filters)
    \o TitleReasons(video, filters) \o ChannelReasons(video, filters)
    \o AgeReasons(video, filters)

\* the five entries of the activeFilterCount array, before filter(Boolean)
activeFilterFlags(filters) ==
  << filters.isWatched.present /\ filters.isWatched.enabled,
     filters.deleteUnavailable,
     Len(parseFilterString(filters.titleContains)) > 0,
     Len(parseFilterString(filters.channelName)) > 0,
     ~filterAgeInDays(filters).isNull >>

activeFilterCount(filters) ==
  Cardinality({i \in 1..5 : activeFilterFlags(filters)[i]})

\* Selected, had the test under AND no 'activeFilterCount > 0'
SelectedNoGuard(reasons, active, logic) ==
  \/ logic = "OR" /\ Len(reasons) > 0
  \/ logic = "AND" /\ Len(reasons) = active

\* Selected, were an item taken under OR only when one sub-filter matched it
SelectedOrSingle(reasons, active, logic) ==
  \/ logic = "OR" /\ Len(reasons) = 1
  \/ logic = "AND" /\ Len(reasons) = active /\ active > 0

\* the test at the end of the loop body
Selected(reasons, active, logic) ==
  \/ logic = "OR" /\ Len(reasons) > 0
  \/ logic = "AND" /\ Len(reasons) = active /\ active > 0

\* what one pass of the loop body pushes to candidates
\* CandidateOf, were the URL of the video not carried over
CandidateOfNoUrl(video, reasons, active, logic) ==
  IF Selected(reasons, active, logic)
    THEN <<[element |-> video.element, title |-> video.title,
            reasons |-> reasons, videoUrl |-> NoValue]>>
    ELSE <<>>

CandidateOf(video, reasons, active, logic) ==
  IF Selected(reasons, active, logic)
    THEN <<[element |-> video.element, title |-> video.title,
            reasons |-> reasons, videoUrl |-> video.videoUrl]>>
    ELSE <<>>

RECURSIVE CandidatesFrom(_, _, _, _)
CandidatesFrom(videos, filters, active, logic) ==
  IF videos = <<>> THEN <<>>
  ELSE CandidateOf(Head(videos), VideoReasons(Head(videos), filters), active, logic)
         \o CandidatesFrom(Tail(videos), filters, active, logic)

getVideosToDeleteAndReasons(videos, filters, logic) ==
  CandidatesFrom(videos, filters, activeFilterCount(filters), logic)

(***************************************************************************)
(* The page and the runs                                                   *)
(***************************************************************************)

\* model bounds
MaxItems  == 3      \* items the playlist can render
MaxRuns   == 2      \* 'deleteVideos' requests the page receives

\* loadAllVideos
WAIT_GROW_MS      == 1400
POLL_INTERVAL     == 150
NO_GROW_THRESHOLD == 2
MAX_TOTAL_MS      == 120000

Runs == 1..MaxRuns

Str_Cat == <<"C","a","t">>
Str_Dog == <<"D","o","g">>
Str_Bob == <<"B","o","b">>

\* what the page renders for its id-th item: four kinds of node, in turn
NodeOf(id) ==
  CASE id % 4 = 1 ->
         [id |-> id, titleText |-> <<" ">> \o Str_Cat, href |-> <<"/","w">>,
          channelText |-> Str_Bob, watched |-> FALSE,
          resumeWidth |-> <<"4","5","%">>,
          meta |-> << <<"9"," ","v","i","e","w","s">>,
                      <<"2"," ","w","e","e","k","s"," ","a","g","o">> >>,
          menuButton |-> TRUE]
    [] id % 4 = 2 ->
         [id |-> id, titleText |-> Str_Private, href |-> <<"/","p">>,
          channelText |-> NoValue, watched |-> FALSE, resumeWidth |-> NoValue,
          meta |-> <<>>, menuButton |-> TRUE]
    [] id % 4 = 3 ->
         [id |-> id, titleText |-> Str_Dog, href |-> NoValue,
          channelText |-> Str_Bob, watched |-> TRUE, resumeWidth |-> NoValue,
          meta |-> << <<"a"," ","y","e","a","r"," ","a","g","o">> >>,
          menuButton |-> FALSE]
    [] OTHER ->
         [id |-> id, titleText |-> NoValue, href |-> NoValue,
          channelText |-> NoValue, watched |-> FALSE, resumeWidth |-> NoValue,
          meta |-> <<>>, menuButton |-> TRUE]

NoWatched == [present |-> TRUE, enabled |-> FALSE, criteria |-> "any", value |-> 0]
NoAge     == [present |-> FALSE, value |-> 0, unit |-> "days"]

\* the filters of the requests the popup sends to the page in this model
F_Unavailable ==
  [titleContains |-> <<>>, channelName |-> <<>>, isWatched |-> NoWatched,
   deleteUnavailable |-> TRUE, age |-> NoAge]
F_Watched ==
  [titleContains |-> <<>>, channelName |-> <<>>,
   isWatched |-> [present |-> TRUE, enabled |-> TRUE, criteria |-> "any", value |-> 0],
   deleteUnavailable |-> FALSE, age |-> NoAge]
F_Either == [F_Watched EXCEPT !.deleteUnavailable = TRUE]
F_NoMatch ==
  [titleContains |-> <<"z","z">>, channelName |-> <<>>, isWatched |-> NoWatched,
   deleteUnavailable |-> FALSE, age |-> NoAge]

Requests ==
  { [filters |-> F_Watched,     logic |-> "OR",  isDryRun |-> FALSE],
    [filters |-> F_Watched,     logic |-> "AND", isDryRun |-> TRUE],
    [filters |-> F_Either,      logic |-> "OR",  isDryRun |-> FALSE],
    [filters |-> F_Either,      logic |-> "OR",  isDryRun |-> TRUE],
    [filters |-> F_Unavailable, logic |-> "AND", isDryRun |-> FALSE],
    [filters |-> F_NoMatch,     logic |-> "AND", isDryRun |-> FALSE] }

VARIABLES
  isCancelled,   \* the script's global flag
  buttons,       \* the cancel buttons in the document, in document order:
                 \*   [owner |-> run that created it, disabled |-> BOOLEAN]
  statusEl,      \* 0: no status indicator in the document, else the run that created it
  dom,           \* ids of the rendered playlist items, in document order
  spinner,       \* a 'loading more' placeholder is in the document
  growing,       \* the source can still render more items
  popup,         \* the menu popup in the document: "none", "remove" (it holds a
                 \*   'Remove from' entry) or "other"
  run,           \* per run: the locals of handleDeleteRequest and its callees
  feIn, feOut,   \* the Filter Engine on its own: input and output
  ext            \* the extension's popup page and what it knows of the tab

vars == <<isCancelled, buttons, statusEl, dom, spinner, growing, popup, run, feIn, feOut, ext>>

pageVars == <<dom, spinner, growing, popup>>

(***************************************************************************)
(* The popup page (popup.ts) and the background script                     *)
(*                                                                         *)
(* ext is a record                                                         *)
(*   pc         "closed", "ping", "inject", "main", "sending", "failed",   *)
(*              "error"                                                    *)
(*   listening  the content script's onMessage listener is in the tab      *)
(*   checked    the pending injection's callback looks at lastError        *)
(*   ui         the main content is shown and initializeMainContent ran    *)
(*   form       the values of the form at the last click                   *)
(*   sent       the last 'deleteVideos' message sent, or NoMessage         *)
(*   initialized  window.__YPC_CONTENT_SCRIPT_INITIALIZED in the tab         *)
(*   listeners  the onMessage listeners content.js has registered in the   *)
(*              tab                                                        *)
(*   pingReady, injectOk   history: what the tab answered to this popup    *)
(*   injections, replies, started   history: runs of content.js in the     *)
(*              tab, replies to the last ping, runs the last message began *)
(***************************************************************************)

NoMessage == [action |-> "none"]

NoForm ==
  [ageValueStr |-> <<>>, ageUnit |-> "", watchedValueStr |-> <<>>,
   watchedCriteria |-> "", isWatchedChecked |-> FALSE]

PopupClosed ==
  [pc |-> "closed", listening |-> FALSE, checked |-> FALSE, ui |-> FALSE,
   form |-> NoForm, sent |-> NoMessage, alerted |-> FALSE,
   pingReady |-> FALSE, injectOk |-> FALSE,
   initialized |-> FALSE, listeners |-> 0,
   injections |-> 0, replies |-> 0, started |-> 0]

\* injections of content.js by the background script that are followed
MaxInjections == 2

\* content.js, were it without its guard
ContentScriptNoGuard(e) ==
  [e EXCEPT !.initialized = TRUE, !.listeners = @ + 1, !.listening = TRUE,
            !.injections = @ + 1]

\* content.js runs in the tab: the guard, then the listener is registered
ContentScript(e) ==
  IF e.initialized
    THEN [e EXCEPT !.injections = @ + 1]
    ELSE [e EXCEPT !.initialized = TRUE, !.listeners = @ + 1, !.listening = TRUE,
                   !.injections = @ + 1]

\* the callback given to ensureContentScriptReady: the main content is shown
\* and initializeMainContent attaches the click handler
ShowMain(e) == [e EXCEPT !.pc = "main", !.ui = TRUE]

\* chrome.scripting.executeScript({files: ['content.js']}, ...) is called
Inject(e, checked) == [e EXCEPT !.pc = "inject", !.checked = checked]

\* what the tab answers to {action: 'ping'}: the listener of content.ts
\* answers {status: 'ready'}; without a listener lastError is set
PingResponse(e) ==
  IF e.listening THEN [lastError |-> FALSE, status |-> "ready"]
  ELSE [lastError |-> TRUE, status |-> ""]

\* the callback of the ping; the last branch is the code's 'unexpected
\* state': an answer without error that is not {status: 'ready'}, which the
\* listener of content.ts never gives
AfterPing(e, response) ==
  IF response.lastError THEN Inject(e, TRUE)
  ELSE IF response.status = "ready" THEN ShowMain(e)
  ELSE Inject(e, FALSE)

\* AfterInject, were the callback of the injection not to look at lastError
AfterInjectUnchecked(e, ok) == ShowMain(e)

\* the callback of executeScript; ok: the injection completed without error
AfterInject(e, ok) ==
  IF e.checked /\ ~ok
    THEN [e EXCEPT !.pc = "failed", !.alerted = TRUE]
    ELSE ShowMain(e)

\* the values the form of the popup can hold
Forms ==
  [ageValueStr      : {<<>>, <<"0">>, <<"5">>, <<"-","3">>, <<"x">>, <<"2",".","5">>},
   ageUnit          : {"", "weeks"},
   watchedValueStr  : {<<>>, <<"0">>, <<"1">>, <<"4","5">>, <<"4","5",".","7">>, <<"1","0","0">>,
                       <<"1","0","1">>, <<"-","1">>, <<"x">>},
   watchedCriteria  : {"", "any", "percent"},
   isWatchedChecked : BOOLEAN]

\* watchedCriteriaSelect?.value || 'any'
watchedCriteria(form) ==
  IF form.watchedCriteria = "" THEN "any" ELSE form.watchedCriteria

\* 'Video age must be a positive number.'
AgeRejected(form, parsed) ==
  form.ageValueStr # <<>> /\ (parsed.nan \/ parsed.v <= 0)

\* the two alerts on the watched value as typed
WatchedValueRejected(form, parsed) ==
  /\ form.watchedValueStr # <<>>
  /\ \/ parsed.nan \/ parsed.v <= 0
     \/ watchedCriteria(form) = "percent" /\ (parsed.v < 1 \/ parsed.v > 100)

watchedValue(form) ==
  IF form.watchedValueStr # <<>> THEN ParseInt(form.watchedValueStr).v ELSE 0

\* 'Please enter a percentage between 1 and 100 for the watched criteria.'
PercentMissing(form) ==
  /\ form.isWatchedChecked
  /\ watchedCriteria(form) = "percent"
  /\ watchedValue(form) <= 0

\* Rejected, were the percentage range not enforced
RejectedNoRange(form) ==
  \/ AgeRejected(form, ParseInt(form.ageValueStr))
  \/ form.watchedValueStr # <<>>
       /\ (ParseInt(form.watchedValueStr).nan \/ ParseInt(form.watchedValueStr).v <= 0)
  \/ PercentMissing(form)

\* the click handler returns before it sends
Rejected(form) ==
  \/ AgeRejected(form, ParseInt(form.ageValueStr))
  \/ WatchedValueRejected(form, ParseInt(form.watchedValueStr))
  \/ PercentMissing(form)

\* the filters object of the message
FiltersOf(form) ==
  [titleContains |-> <<>>, channelName |-> <<>>,
   isWatched |-> [present |-> TRUE, enabled |-> form.isWatchedChecked,
                  criteria |-> watchedCriteria(form), value |-> watchedValue(form)],
   deleteUnavailable |-> FALSE,
   age |-> IF form.ageValueStr # <<>> /\ form.ageUnit # ""
             THEN [present |-> TRUE, value |-> ParseInt(form.ageValueStr).v,
                   unit |-> form.ageUnit]
             ELSE NoAge]

\* the click handler of the Delete button
Clicked(e, form) ==
  IF Rejected(form)
    THEN [e EXCEPT !.form = form, !.sent = NoMessage, !.alerted = TRUE]
    ELSE [e EXCEPT !.form = form, !.pc = "sending",
                   !.sent = [action |-> "deleteVideos", filters |-> FiltersOf(form),
                             logic |-> "OR", isDryRun |-> FALSE]]

NotPopup == <<isCancelled, buttons, statusEl, pageVars, run, feIn, feOut>>

\* the popup is opened: DOMContentLoaded; valid: the tab shows a playlist
DOMContentLoaded ==
  /\ ext.pc = "closed"
  /\ \E valid \in BOOLEAN :
       ext' = [ext EXCEPT !.pc = IF valid THEN "ping" ELSE "error",
                          !.ui = FALSE, !.alerted = FALSE,
                          !.pingReady = FALSE, !.injectOk = FALSE]
  /\ UNCHANGED NotPopup

PingCallback ==
  /\ ext.pc = "ping"
  /\ ext' = AfterPing([ext EXCEPT !.pingReady = PingResponse(ext).status = "ready",
                                  !.replies = ext.listeners],
                      PingResponse(ext))
  /\ UNCHANGED NotPopup

\* the injection ends: content.js ran in the tab and registered its listener,
\* or the injection failed
InjectCallback ==
  /\ ext.pc = "inject"
  /\ \E ok \in BOOLEAN :
       ext' = AfterInject(IF ok THEN ContentScript([ext EXCEPT !.injectOk = TRUE])
                          ELSE [ext EXCEPT !.injectOk = FALSE], ok)
  /\ UNCHANGED NotPopup

DeleteClick ==
  /\ ext.pc = "main" /\ ext.ui
  /\ \E form \in Forms :
       ext' = Clicked([ext EXCEPT !.alerted = FALSE, !.started = 0], form)
  /\ UNCHANGED NotPopup

\* the 'deleteVideos' message reaches the listeners of the tab; its callback:
\* window.close(), or the alert
SendCallback ==
  /\ ext.pc = "sending"
  /\ ext' = IF ext.listening
              THEN [ext EXCEPT !.pc = "closed", !.ui = FALSE,
                               !.started = ext.listeners]
              ELSE [ext EXCEPT !.pc = "main", !.alerted = TRUE]
  /\ UNCHANGED NotPopup

\* the user closes the popup
PopupCloses ==
  /\ ext.pc \in {"main", "failed", "error"}
  /\ ext' = [ext EXCEPT !.pc = "closed", !.ui = FALSE]
  /\ UNCHANGED NotPopup

\* background.ts: a navigation to a playlist inside YouTube injects content.js
HistoryStateUpdated ==
  /\ ext.injections < MaxInjections
  /\ ext' = ContentScript(ext)
  /\ UNCHANGED NotPopup

\* document.documentElement.scrollHeight: the height of what is rendered
scrollHeight == Len(dom) + (IF spinner THEN 1 ELSE 0)

\* document.querySelectorAll(SELECTORS.videoRenderer).length
VideoCount == Len(dom)

IdleRun ==
  [pc |-> "idle", isDryRun |-> FALSE, filters |-> F_NoMatch, logic |-> "OR",
   showStatusFlag |-> FALSE,
   lastCount |-> 0, prevScrollHeight |-> 0, noGrowCount |-> 0,
   mutationObserved |-> FALSE, lastNodeVisible |-> FALSE,
   moOn |-> FALSE, ioNode |-> 0, ioLive |-> 0,
   elapsed |-> 0, waited |-> 0, finalCount |-> 0,
   candidates |-> <<>>, idx |-> 0, deleted |-> <<>>, failed |-> <<>>,
   outcome |-> "", summary |-> [kind |-> "none"],
   \* history, not program state
   acts |-> {}, prims |-> {}, exitReason |-> "", lateRound |-> FALSE, brokeAt |-> 0 - 1,
   cleanups |-> 0, uiLeft |-> FALSE, stopped |-> FALSE,
   pressedInLoader |-> FALSE, pressedAt |-> 0 - 1]

\* a clock reading that stops counting at cap
Sat(t, cap) == IF t >= cap THEN cap ELSE t

\* the run's clocks after ms more milliseconds
Advance(rr, ms) ==
  [rr EXCEPT !.elapsed = Sat(rr.elapsed + ms, MAX_TOTAL_MS),
             !.waited  = Sat(rr.waited + ms, WAIT_GROW_MS + POLL_INTERVAL)]

\* history: the run issues a command to the page; acts keeps the commands
\* issued while the flag was set, prims the Executor's commands
ExecutorCommands == {"scrollIntoView", "menuClick", "removeClick", "bodyClick"}
Note(rr, kind) ==
  [rr EXCEPT !.acts  = IF isCancelled THEN @ \cup {kind} ELSE @,
             !.prims = IF kind \in ExecutorCommands THEN @ \cup {kind} ELSE @]

(***************************************************************************)
(* A step of a run is the synchronous code between two awaits.  Each of    *)
(* the operators below is such a stretch of code: it takes the run's       *)
(* locals rr and the status indicator st and gives                         *)
(*   [rr |-> the new locals, st |-> the new status indicator,              *)
(*    fin |-> the finally block of handleDeleteRequest has run]            *)
(***************************************************************************)

Cont(rr, st, fin) == [rr |-> rr, st |-> st, fin |-> fin]

\* showStatus / hideStatus by run r on the indicator st
showStatus(st, r) == IF st # 0 THEN st ELSE r
hideStatus(st)    == 0

\* handleDeleteRequest: the run ends (return or catch), the finally block runs
EndRun(rr, st, outcome) ==
  Cont([rr EXCEPT !.pc = "done", !.outcome = outcome, !.cleanups = @ + 1], st, TRUE)

\* ---- loadAllVideos ----

\* io.disconnect(): one visibility observer fewer is connected, if there is an io
Disconnected(rr) == IF rr.ioNode # 0 THEN rr.ioLive - 1 ELSE rr.ioLive

\* observeLastNode(node), node = 0 for null: the old io is disconnected, a new
\* one observes node; ioLive counts the run's connected visibility observers
observeLastNode(rr, node) ==
  [rr EXCEPT !.ioLive = Disconnected(rr) + (IF node # 0 THEN 1 ELSE 0),
             !.ioNode = node,
             !.lastNodeVisible = FALSE]

\* LoaderExit, were the loop left on cancellation by a return
LoaderExitNoCleanup(rr, st, why) ==
  Cont([Note(rr, "scrollRestore") EXCEPT
          !.moOn = IF why = "cancel" THEN @ ELSE FALSE,
          !.ioLive = IF why = "cancel" THEN @ ELSE Disconnected(rr),
          !.ioNode = IF why = "cancel" THEN @ ELSE 0,
          !.finalCount = VideoCount,
          !.exitReason = why, !.stopped = ~growing, !.pc = "L_final"],
       st, FALSE)

\* after the loop: observers disconnected, scroll restored, count read, sleep(500)
LoaderExit(rr, st, why) ==
  Cont([Note(rr, "scrollRestore") EXCEPT
          !.moOn = FALSE, !.ioLive = Disconnected(rr), !.ioNode = 0,
          !.finalCount = VideoCount,
          !.exitReason = why, !.stopped = ~growing, !.pc = "L_final"],
       st, FALSE)

\* LoaderLoopTop, were the loop 'while (true)'
LoaderLoopTopNoCap(rr, st) ==
  IF isCancelled
    THEN LoaderExit(rr, st, "cancel")
    ELSE Cont([Note(rr, "scrollBottom") EXCEPT
                 !.lateRound = @ \/ rr.elapsed >= MAX_TOTAL_MS,
                 !.pc = "L_settle"], st, FALSE)

\* LoaderLoopTop, had the loop body no 'if (isCancelled) break'
LoaderLoopTopNoCancel(rr, st) ==
  IF rr.elapsed < MAX_TOTAL_MS
    THEN Cont([Note(rr, "scrollBottom") EXCEPT !.pc = "L_settle"], st, FALSE)
    ELSE LoaderExit(rr, st, "cap")

\* LoaderLoopTop, were the flag read after the scroll to the bottom
LoaderLoopTopScrollsFirst(rr, st) ==
  IF rr.elapsed < MAX_TOTAL_MS
    THEN IF isCancelled
           THEN LoaderExit(Note(rr, "scrollBottom"), st, "cancel")
           ELSE Cont([Note(rr, "scrollBottom") EXCEPT !.pc = "L_settle"], st, FALSE)
    ELSE LoaderExit(rr, st, "cap")

\* the while condition and the top of the loop body, up to sleep(220)
LoaderLoopTop(rr, st) ==
  IF rr.elapsed < MAX_TOTAL_MS
    THEN IF isCancelled
           THEN LoaderExit(rr, st, "cancel")
           ELSE Cont([Note(rr, "scrollBottom") EXCEPT
                        !.lateRound = @ \/ rr.elapsed >= MAX_TOTAL_MS,
                        !.pc = "L_settle"], st, FALSE)
    ELSE LoaderExit(rr, st, "cap")

\* LoaderNoGrowth, were the threshold test 'noGrowCount > NO_GROW_THRESHOLD'
LoaderNoGrowthLate(rr, st) ==
  IF ~spinner /\ rr.lastNodeVisible
    THEN LoaderExit(rr, st, "end")
  ELSE IF rr.noGrowCount > NO_GROW_THRESHOLD
    THEN LoaderExit(rr, st, "threshold")
  ELSE Cont([Note(rr, "scrollBy") EXCEPT !.pc = "L_nudge"], st, FALSE)

\* LoaderNoGrowth, were the placeholder not looked at
LoaderNoGrowthNoSpinner(rr, st) ==
  IF rr.lastNodeVisible
    THEN LoaderExit(rr, st, "end")
  ELSE IF rr.noGrowCount >= NO_GROW_THRESHOLD
    THEN LoaderExit(rr, st, "threshold")
  ELSE Cont([Note(rr, "scrollBy") EXCEPT !.pc = "L_nudge"], st, FALSE)

\* the end of a round without growth, noGrowCount already counted up
LoaderNoGrowth(rr, st) ==
  IF ~spinner /\ rr.lastNodeVisible
    THEN LoaderExit(rr, st, "end")
  ELSE IF rr.noGrowCount >= NO_GROW_THRESHOLD
    THEN LoaderExit(rr, st, "threshold")
  ELSE Cont([Note(rr, "scrollBy") EXCEPT !.pc = "L_nudge"], st, FALSE)

\* LoaderRound, were the counts recorded whenever the wait reports growth
LoaderRoundRecordsAny(rr, st, grew) ==
  IF grew
    THEN LoaderLoopTop([rr EXCEPT !.lastCount = VideoCount,
                                  !.prevScrollHeight = scrollHeight,
                                  !.noGrowCount = 0], st)
    ELSE LoaderNoGrowth([rr EXCEPT !.noGrowCount = @ + 1], st)

\* the code after the growth wait resolved with grew
LoaderRound(rr, st, grew) ==
  IF grew /\ VideoCount > rr.lastCount
    THEN LoaderLoopTop([rr EXCEPT !.lastCount = VideoCount,
                                  !.prevScrollHeight = scrollHeight,
                                  !.noGrowCount = 0], st)
    ELSE LoaderNoGrowth([rr EXCEPT !.noGrowCount = @ + 1], st)

\* check(): one poll of the growth wait
LoaderCheck(rr, st) ==
  IF VideoCount > rr.lastCount THEN LoaderRound(rr, st, TRUE)
  ELSE IF scrollHeight > rr.prevScrollHeight THEN LoaderRound(rr, st, TRUE)
  ELSE IF rr.mutationObserved THEN LoaderRound(rr, st, TRUE)
  ELSE IF rr.waited > WAIT_GROW_MS THEN LoaderRound(rr, st, FALSE)
  ELSE Cont([rr EXCEPT !.pc = "L_poll"], st, FALSE)

\* ---- deleteVideosAndCreateSummary ----

isUnavailableTitle(t) ==
  IF t = NoValue \/ t = <<>> THEN FALSE
  ELSE Trim(t) = Str_Private \/ Trim(t) = Str_Deleted

\* the summary block of a removed (or would-be removed) candidate; cand is
\* history: the candidate's position
BlockOf(c, pos) ==
  [cand |-> pos, title |-> c.title, reasons |-> c.reasons,
   url |-> IF c.videoUrl # NoValue /\ ~isUnavailableTitle(c.title)
             THEN c.videoUrl ELSE NoValue]

DeletedBlock(rr) == BlockOf(rr.candidates[rr.idx + 1], rr.idx + 1)

FailedOf(c, pos, why) ==
  [cand |-> pos, title |-> c.title, reasons |-> <<why>>, videoUrl |-> c.videoUrl]

FailedEntry(rr, why) == FailedOf(rr.candidates[rr.idx + 1], rr.idx + 1, why)

\* downloadSummary
downloadSummary(rr) == IF Len(rr.deleted) = 0 THEN "alert" ELSE "download"

\* SummaryKind, were the cancelled sentence given whenever the flag is set
SummaryKindByFlag(rr) ==
  IF isCancelled THEN "cancelled"
  ELSE IF Len(rr.deleted) = 0 /\ Len(rr.failed) = 0 THEN "nothing"
  ELSE "full"

\* after the for loop: the summary, the last status update, the return to
\* handleDeleteRequest and downloadSummary
SummaryKind(rr) ==
  IF Len(rr.deleted) = 0 /\ Len(rr.failed) = 0
    THEN (IF isCancelled THEN "cancelled" ELSE "nothing")
    ELSE "full"

ExecSummarised(rr, st) ==
  IF ~rr.isDryRun
    THEN Cont([rr EXCEPT !.pc = "E_final"], st, FALSE)
    ELSE EndRun(rr, st, downloadSummary(rr))

\* one line of the criteria header
HeaderLine(item, text, value, unit) ==
  [item |-> item, text |-> text, value |-> value, unit |-> unit]

\* the criteria header: the logic of its title line and the lines added to it
criteriaHeader(filters, logic) ==
  [logic |-> logic,
   lines |->
     (IF filters.isWatched.present /\ filters.isWatched.enabled
        THEN IF filters.isWatched.criteria = "any"
               THEN <<HeaderLine("isWatched", <<>>, 0, "any")>>
             ELSE IF filters.isWatched.criteria = "percent"
               THEN <<HeaderLine("isWatched", <<>>, filters.isWatched.value, "percent")>>
             ELSE <<>>
        ELSE <<>>)
     \o (IF filters.deleteUnavailable
           THEN <<HeaderLine("deleteUnavailable", <<>>, 0, "")>> ELSE <<>>)
     \o (IF filters.titleContains # NoValue /\ filters.titleContains # <<>>
           THEN <<HeaderLine("titleContains", filters.titleContains, 0, "")>> ELSE <<>>)
     \o (IF filters.channelName # NoValue /\ filters.channelName # <<>>
           THEN <<HeaderLine("channelName", filters.channelName, 0, "")>> ELSE <<>>)
     \o (IF filters.age.present
           THEN <<HeaderLine("age", <<>>, filters.age.value, filters.age.unit)>>
           ELSE <<>>)]

\* summaryHeader, were Matched the number of items processed
summaryHeaderProcessed(rr) ==
  [dryRun  |-> rr.isDryRun,
   matched |-> Len(rr.deleted) + Len(rr.failed),
   removed |-> Len(rr.deleted),
   failed  |-> Len(rr.failed)]

\* the counts header: Matched, Removed / Would remove, Failed to remove
summaryHeader(rr) ==
  [dryRun  |-> rr.isDryRun,
   matched |-> Len(rr.candidates),
   removed |-> Len(rr.deleted),
   failed  |-> Len(rr.failed)]

\* FailedBlock, were the link printed for any title
FailedBlockAnyTitle(f) ==
  [cand |-> f.cand, title |-> f.title, reasons |-> f.reasons, url |-> f.videoUrl]

\* the block written for a failed removal
FailedBlock(f) ==
  [cand |-> f.cand, title |-> f.title, reasons |-> f.reasons,
   url |-> IF f.videoUrl # NoValue /\ ~isUnavailableTitle(f.title)
             THEN f.videoUrl ELSE NoValue]

\* summaryText: one of the two sentences, or the report with its headers,
\* deletedVideoSummaries.join and the blocks of failedRemovals
summaryText(rr) ==
  IF SummaryKind(rr) # "full"
    THEN [kind |-> SummaryKind(rr)]
    ELSE [kind     |-> "full",
          criteria |-> criteriaHeader(rr.filters, rr.logic),
          counts   |-> summaryHeader(rr),
          removed  |-> rr.deleted,
          failed   |-> [i \in 1..Len(rr.failed) |-> FailedBlock(rr.failed[i])]]

ExecAfterLoop(rr, st) == ExecSummarised([rr EXCEPT !.summary = summaryText(rr)], st)

\* ExecLoopTop, had the loop body no 'if (isCancelled) break'
ExecLoopTopNoCancel(rr, st) ==
  IF rr.idx >= Len(rr.candidates) THEN ExecAfterLoop(rr, st)
  ELSE IF rr.isDryRun
    THEN Cont([Note(rr, "candidate") EXCEPT
                 !.deleted = Append(@, DeletedBlock(rr)), !.pc = "E_dry"], st, FALSE)
    ELSE Cont([Note(Note(rr, "candidate"), "scrollIntoView") EXCEPT
                 !.pc = "E_scroll"], st, FALSE)

\* ExecLoopTop, had the loop body no 'if (isDryRun) ... continue'
ExecLoopTopNoDryRun(rr, st) ==
  IF rr.idx >= Len(rr.candidates) THEN ExecAfterLoop(rr, st)
  ELSE IF isCancelled THEN ExecAfterLoop([rr EXCEPT !.brokeAt = rr.idx], st)
  ELSE Cont([Note(Note(rr, "candidate"), "scrollIntoView") EXCEPT
               !.pc = "E_scroll"], st, FALSE)

\* the loop condition and the top of the loop body, up to the first await
ExecLoopTop(rr, st) ==
  IF rr.idx >= Len(rr.candidates) THEN ExecAfterLoop(rr, st)
  ELSE IF isCancelled THEN ExecAfterLoop([rr EXCEPT !.brokeAt = rr.idx], st)
  ELSE IF rr.isDryRun
    THEN Cont([Note(rr, "candidate") EXCEPT
                 !.deleted = Append(@, DeletedBlock(rr)), !.pc = "E_dry"], st, FALSE)
    ELSE Cont([Note(Note(rr, "candidate"), "scrollIntoView") EXCEPT
                 !.pc = "E_scroll"], st, FALSE)

\* ExecNext, were a candidate that has just failed taken up again
ExecNextRetry(rr, st) ==
  IF rr.failed # <<>> /\ rr.failed[Len(rr.failed)].cand = rr.idx + 1
    THEN ExecLoopTop(rr, st)
    ELSE ExecLoopTop([rr EXCEPT !.idx = @ + 1], st)

\* continue: the next iteration
ExecNext(rr, st) == ExecLoopTop([rr EXCEPT !.idx = @ + 1], st)

\* ---- handleDeleteRequest, after loadAllVideos returned ----

\* document.querySelectorAll(SELECTORS.videoRenderer) when the list shows d
NodesOf(d) == [i \in 1..Len(d) |-> NodeOf(d[i])]

\* the ids of S in the order of the list
RECURSIVE InOrder(_)
InOrder(S) == IF S = {} THEN <<>> ELSE <<Least(S)>> \o InOrder(S \ {Least(S)})

\* the lists the page can show: items leave the list, the others keep their order
DomValues == {InOrder(S) : S \in SUBSET (1..MaxItems)}

\* extraction and filtering in handleDeleteRequest, tabulated over the lists
\* the page can show and the requests it can receive
Candidates ==
  [d \in DomValues, q \in {<<x.filters, x.logic>> : x \in Requests} |->
     getVideosToDeleteAndReasons(ExtractAll(NodesOf(d)), q[1], q[2])]

\* the locals of loadAllVideos are gone when it has returned
LoaderLocalsGone(rr) ==
  [rr EXCEPT !.lastCount = 0, !.prevScrollHeight = 0, !.noGrowCount = 0,
             !.mutationObserved = FALSE, !.lastNodeVisible = FALSE,
             !.elapsed = 0, !.waited = 0]

\* if (videosToDelete.length > 0) ... else ...
AfterFilter(rr, st, r, cands) ==
  IF Len(cands) > 0
    THEN ExecLoopTop([rr EXCEPT !.candidates = cands, !.idx = 0],
                     IF ~rr.isDryRun THEN showStatus(st, r) ELSE st)
    ELSE EndRun(rr, st, "no-match")

\* AfterLoad, had handleDeleteRequest no 'if (isCancelled) return'
AfterLoadNoCheck(rr, st, r) ==
  AfterFilter(rr, st, r, Candidates[dom, <<rr.filters, rr.logic>>])

AfterLoad(rr, st, r) ==
  IF isCancelled
    THEN EndRun(rr, st, "cancelled-loading")
    ELSE AfterFilter(rr, st, r, Candidates[dom, <<rr.filters, rr.logic>>])

\* removeCancelButton: the first element with the button's id goes
removeCancelButton(bs) == IF bs = <<>> THEN bs ELSE Tail(bs)

\* a step of run r takes effect: its locals, the status indicator and, when
\* the run ended, the finally block (button removed, flag cleared)
\* history: run r has ended and UI it injected is still in the document
UiLeft(r, k, bs) == k.fin /\ (k.st = r \/ \E i \in 1..Len(bs) : bs[i].owner = r)

CommitWith(r, k, bs) ==
  /\ run' = [run EXCEPT ![r] = [k.rr EXCEPT !.uiLeft = UiLeft(r, k, bs)]]
  /\ statusEl' = k.st
  /\ buttons' = bs
  /\ isCancelled' = IF k.fin THEN FALSE ELSE isCancelled

Commit(r, k) ==
  CommitWith(r, k, IF k.fin THEN removeCancelButton(buttons) ELSE buttons)

(***************************************************************************)
(* Actions of a run: each resumes the run at one await                     *)
(***************************************************************************)

\* the message listener receives a well-formed 'deleteVideos' request:
\* handleDeleteRequest up to the first await of loadAllVideos (sleep(250))
Started(r, req) ==
  /\ run[r].pc = "idle"
  /\ \A q \in 1..(r - 1) : run[q].pc # "idle"
  /\ isCancelled' = FALSE
  /\ buttons' = Append(buttons, [owner |-> r, disabled |-> FALSE])
  /\ statusEl' = IF ~req.isDryRun THEN showStatus(statusEl, r) ELSE statusEl
  /\ run' = [run EXCEPT ![r] =
       [@ EXCEPT !.pc = "L_top", !.filters = req.filters, !.logic = req.logic,
                 !.isDryRun = req.isDryRun, !.showStatusFlag = ~req.isDryRun,
                 !.acts = {}]]

\* the listener gets a well-formed 'deleteVideos' message
OnDeleteVideos(r, req) ==
  /\ Started(r, req)
  /\ UNCHANGED <<pageVars, feIn, feOut, ext>>

\* a JavaScript value of a message is truthy
Truthy(v) == v \notin {"<undefined>", ""}

\* WellFormed, were the parameters of the message not looked at
WellFormedAny(m) == TRUE

\* request.filters && request.logic && typeof request.isDryRun === 'boolean'
WellFormed(m) ==
  m.hasFilters /\ Truthy(m.logic) /\ m.isDryRun \in {"true", "false"}

\* the parameters handleDeleteRequest is called with
RequestOf(m) ==
  [filters |-> m.filters, logic |-> m.logic, isDryRun |-> m.isDryRun = "true"]

\* the listener's answer to message m
Response(m) ==
  IF m.action = "ping" THEN [status |-> "ready"]
  ELSE IF WellFormed(m) THEN [status |-> "started"]
  ELSE [status |-> "error"]

\* chrome.runtime.onMessage: the listener gets message m, which begins run r
\* when it is a well-formed 'deleteVideos'; feIn keeps the message, feOut the
\* answer
OnMessage(r, m) ==
  /\ feIn' = <<m>>
  /\ feOut' = <<Response(m)>>
  /\ IF m.action = "deleteVideos" /\ WellFormed(m)
       THEN Started(r, RequestOf(m))
       ELSE UNCHANGED <<isCancelled, buttons, statusEl, run>>
  /\ UNCHANGED <<pageVars, ext>>

\* sleep(250) is over: the locals of loadAllVideos, the observer, the first round
LoaderBegin(r) ==
  /\ run[r].pc = "L_top"
  /\ Commit(r, LoaderLoopTop(
        [run[r] EXCEPT !.lastCount = VideoCount, !.prevScrollHeight = scrollHeight,
                       !.noGrowCount = 0, !.mutationObserved = FALSE, !.moOn = TRUE,
                       !.lastNodeVisible = FALSE, !.ioNode = 0, !.elapsed = 0],
        statusEl))
  /\ UNCHANGED <<pageVars, feIn, feOut, ext>>

\* sleep(220) is over: observeLastNode, then the growth wait begins
LoaderSettled(r) ==
  /\ run[r].pc = "L_settle"
  /\ Commit(r, LoaderCheck(
        [observeLastNode(Advance(run[r], 220),
                         IF Len(dom) > 0 THEN dom[Len(dom)] ELSE 0) EXCEPT
           !.mutationObserved = FALSE, !.waited = 0],
        statusEl))
  /\ UNCHANGED <<pageVars, feIn, feOut, ext>>

\* setTimeout(check, POLL_INTERVAL) fires
LoaderPoll(r) ==
  /\ run[r].pc = "L_poll"
  /\ Commit(r, LoaderCheck(Advance(run[r], POLL_INTERVAL), statusEl))
  /\ UNCHANGED <<pageVars, feIn, feOut, ext>>

\* sleep(180) after the nudge is over
LoaderNudged(r) ==
  /\ run[r].pc = "L_nudge"
  /\ Commit(r, LoaderLoopTop(Advance(run[r], 180), statusEl))
  /\ UNCHANGED <<pageVars, feIn, feOut, ext>>

\* sleep(500) is over: loadAllVideos returns, handleDeleteRequest goes on
LoaderReturns(r) ==
  /\ run[r].pc = "L_final"
  /\ Commit(r, AfterLoad(LoaderLocalsGone(run[r]),
                         IF run[r].showStatusFlag THEN hideStatus(statusEl)
                         ELSE statusEl, r))
  /\ UNCHANGED <<pageVars, feIn, feOut, ext>>

\* dry run: sleep(60) is over, continue
ExecDryNext(r) ==
  /\ run[r].pc = "E_dry"
  /\ Commit(r, ExecNext(run[r], statusEl))
  /\ UNCHANGED <<pageVars, feIn, feOut, ext>>

\* sleep(200) after scrollIntoView is over: the menu button
ExecMenuButton(r) ==
  /\ run[r].pc = "E_scroll"
  /\ IF ~NodeOf(run[r].candidates[run[r].idx + 1].element).menuButton
          THEN Commit(r, ExecNext(
                 [run[r] EXCEPT !.failed =
                    Append(@, FailedEntry(run[r], "Menu button not found"))],
                 statusEl))
          ELSE Commit(r, Cont([Note(run[r], "menuClick") EXCEPT !.pc = "E_click"],
                              statusEl, FALSE))
  /\ UNCHANGED <<pageVars, feIn, feOut, ext>>

\* clickElement's sleep(100) is over: waitForElement(menuPopup, 3000) begins
ExecMenuWait(r) ==
  /\ run[r].pc = "E_click"
  /\ Commit(r, Cont([run[r] EXCEPT !.pc = "E_wait"], statusEl, FALSE))
  /\ UNCHANGED <<pageVars, feIn, feOut, ext>>

\* dom without the item id
RECURSIVE Without(_, _)
Without(seq, id) ==
  IF seq = <<>> THEN <<>>
  ELSE (IF Head(seq) = id THEN <<>> ELSE <<Head(seq)>>) \o Without(Tail(seq), id)

\* a poll of waitForElement sees the popup: the 'Remove from' entry is
\* clicked (the item leaves the list), or the menu is dismissed.  The popup
\* may leave the document or stay in it.
ExecMenuFound(r) ==
  /\ run[r].pc = "E_wait"
  /\ popup # "none"
  /\ \E closes \in BOOLEAN :
       /\ popup' = IF closes THEN "none" ELSE popup
       /\ IF popup = "remove"
            THEN /\ dom' = Without(dom, run[r].candidates[run[r].idx + 1].element)
                 /\ Commit(r, Cont([Note(run[r], "removeClick") EXCEPT !.pc = "E_remove"],
                                   statusEl, FALSE))
            ELSE /\ dom' = dom
                 /\ Commit(r, Cont([Note(run[r], "bodyClick") EXCEPT !.pc = "E_dismiss"],
                                   statusEl, FALSE))
  /\ UNCHANGED <<spinner, growing, feIn, feOut, ext>>

\* ExecMenuTimeout, had waitForElement no setTimeout: the wait ends only when
\* a poll sees the popup
ExecMenuTimeoutNoTimer(r) ==
  /\ run[r].pc = "E_wait"
  /\ FALSE
  /\ UNCHANGED vars

\* the 3000 ms of waitForElement pass without a poll seeing the popup
ExecMenuTimeout(r) ==
  /\ run[r].pc = "E_wait"
  /\ Commit(r, ExecNext(
        [run[r] EXCEPT !.failed = Append(@, FailedEntry(run[r], "Menu popup not found"))],
        statusEl))
  /\ UNCHANGED <<pageVars, feIn, feOut, ext>>

\* clickElement's sleep(300) after the remove click is over
ExecRemoved(r) ==
  /\ run[r].pc = "E_remove"
  /\ Commit(r, ExecNext([run[r] EXCEPT !.deleted = Append(@, DeletedBlock(run[r]))],
                        statusEl))
  /\ UNCHANGED <<pageVars, feIn, feOut, ext>>

\* ExecDismissed, were the candidate also given a summary block
ExecDismissedBoth(r) ==
  /\ run[r].pc = "E_dismiss"
  /\ Commit(r, ExecNext(
        [run[r] EXCEPT !.deleted = Append(@, DeletedBlock(run[r])),
                       !.failed =
           Append(@, FailedEntry(run[r], "Remove button not found in menu"))],
        statusEl))
  /\ UNCHANGED <<pageVars, feIn, feOut, ext>>

\* sleep(100) after the dismissal is over
ExecDismissed(r) ==
  /\ run[r].pc = "E_dismiss"
  /\ Commit(r, ExecNext(
        [run[r] EXCEPT !.failed =
           Append(@, FailedEntry(run[r], "Remove button not found in menu"))],
        statusEl))
  /\ UNCHANGED <<pageVars, feIn, feOut, ext>>

\* a call on the page throws inside the try block of a candidate
ExecException(r) ==
  /\ run[r].pc \in {"E_scroll", "E_click", "E_wait"}
  /\ Commit(r, ExecNext(
        [run[r] EXCEPT !.failed =
           Append(@, FailedEntry(run[r], "Exception during removal"))],
        statusEl))
  /\ UNCHANGED <<pageVars, feIn, feOut, ext>>

\* sleep(700) is over: hideStatus, return, downloadSummary
ExecReturns(r) ==
  /\ run[r].pc = "E_final"
  /\ Commit(r, EndRun(run[r], hideStatus(statusEl), downloadSummary(run[r])))
  /\ UNCHANGED <<pageVars, feIn, feOut, ext>>

\* a call on the page throws outside any inner try, in the round of the
\* Loader that follows sleep(220) (observeLastNode, updateStatus) or, when
\* loadAllVideos has returned to a run that is not cancelled, in
\* extractVideoData: the catch block of handleDeleteRequest, then finally
Fault(r) ==
  /\ \/ /\ run[r].pc = "L_settle"
        /\ Commit(r, EndRun(run[r], statusEl, "error"))
     \/ /\ run[r].pc = "L_final"
        /\ ~isCancelled
        /\ Commit(r, EndRun(LoaderLocalsGone(run[r]),
                            IF run[r].showStatusFlag THEN hideStatus(statusEl)
                            ELSE statusEl, "error"))
  /\ UNCHANGED <<pageVars, feIn, feOut, ext>>

(***************************************************************************)
(* Actions of the user and of the page                                     *)
(***************************************************************************)

InLoader(rr) == rr.pc \in {"L_top", "L_settle", "L_poll", "L_nudge", "L_final"}
InExecutor(rr) ==
  rr.pc \in {"E_dry", "E_scroll", "E_click", "E_wait", "E_remove", "E_dismiss", "E_final"}

\* candidates whose sequence has begun in run rr
Begun(rr) ==
  IF rr.pc \in {"E_dry", "E_scroll", "E_click", "E_wait", "E_remove", "E_dismiss"}
    THEN rr.idx + 1 ELSE rr.idx

\* the user clicks a cancel button that is not disabled: button.onclick
CancelClick(i) ==
  /\ i \in 1..Len(buttons)
  /\ ~buttons[i].disabled
  /\ isCancelled' = TRUE
  /\ buttons' = [buttons EXCEPT ![i].disabled = TRUE]
  /\ run' = [r \in Runs |->
       [run[r] EXCEPT !.pressedInLoader = @ \/ InLoader(run[r]),
                      !.pressedAt = IF InExecutor(run[r]) /\ run[r].pc # "E_final"
                                      THEN Begun(run[r]) ELSE @]]
  /\ UNCHANGED <<statusEl, pageVars, feIn, feOut, ext>>

\* the IntersectionObserver of run r reports its node as intersecting
Intersect(r) ==
  /\ run[r].ioNode # 0
  /\ ~run[r].lastNodeVisible
  /\ run' = [run EXCEPT ![r].lastNodeVisible = TRUE]
  /\ UNCHANGED <<isCancelled, buttons, statusEl, pageVars, feIn, feOut, ext>>

\* the page opens the menu popup after a menu button was clicked
PopupOpens ==
  /\ popup = "none"
  /\ \E r \in Runs : run[r].pc \in {"E_click", "E_wait"}
  /\ popup' \in {"remove", "other"}
  /\ UNCHANGED <<isCancelled, buttons, statusEl, dom, spinner, growing, run, feIn, feOut, ext>>

\* MutationObserver callbacks of the runs that observe the list
Observed(rs) == [r \in Runs |->
  IF run[r].moOn THEN [run[r] EXCEPT !.mutationObserved = TRUE] ELSE run[r]]

\* the source renders one more item (and may show or drop its placeholder)
AddItem ==
  /\ growing
  /\ \E r \in Runs : InLoader(run[r])
  /\ Len(dom) < MaxItems
  /\ dom' = Append(dom, Len(dom) + 1)
  /\ spinner' \in BOOLEAN
  /\ run' = Observed(Runs)
  /\ UNCHANGED <<isCancelled, buttons, statusEl, growing, popup, feIn, feOut, ext>>

\* the page, all its items rendered, drops the last one while a run is
\* loading that has counted it
RemoveItem ==
  /\ ~growing
  /\ \E r \in Runs : InLoader(run[r]) /\ run[r].pc # "L_top"
                       /\ Len(dom) = run[r].lastCount
  /\ Len(dom) > 0
  /\ dom' = SubSeq(dom, 1, Len(dom) - 1)
  /\ run' = Observed(Runs)
  /\ UNCHANGED <<isCancelled, buttons, statusEl, spinner, growing, popup, feIn, feOut, ext>>

\* the source shows its 'loading more' placeholder
SpinnerShows ==
  /\ growing
  /\ \E r \in Runs : InLoader(run[r])
  /\ ~spinner
  /\ spinner' = TRUE
  /\ run' = Observed(Runs)
  /\ UNCHANGED <<isCancelled, buttons, statusEl, dom, growing, popup, feIn, feOut, ext>>

\* the source has rendered its last item: no placeholder from now on
SourceStops ==
  /\ growing
  /\ \E r \in Runs : InLoader(run[r])
  /\ growing' = FALSE
  /\ spinner' = FALSE
  /\ run' = IF spinner THEN Observed(Runs) ELSE run
  /\ UNCHANGED <<isCancelled, buttons, statusEl, dom, popup, feIn, feOut, ext>>

\* the timer run r waits for is late: time passes, the run stays suspended
TimerLate(r) ==
  /\ InLoader(run[r])
  /\ run[r].pc # "L_top"
  /\ Advance(run[r], MAX_TOTAL_MS) # run[r]
  /\ run' = [run EXCEPT ![r] = Advance(run[r], MAX_TOTAL_MS)]
  /\ UNCHANGED <<isCancelled, buttons, statusEl, pageVars, feIn, feOut, ext>>

(***************************************************************************)
(* Specifications                                                          *)
(***************************************************************************)

RunStep(r) ==
  \/ LoaderBegin(r) \/ LoaderSettled(r) \/ LoaderPoll(r) \/ LoaderNudged(r)
  \/ LoaderReturns(r)
  \/ ExecDryNext(r) \/ ExecMenuButton(r) \/ ExecMenuWait(r) \/ ExecMenuFound(r)
  \/ ExecMenuTimeout(r) \/ ExecRemoved(r) \/ ExecDismissed(r) \/ ExecException(r)
  \/ ExecReturns(r)

\* the page before any request: n of the playlist's items are rendered
InitPage(n, more) ==
  /\ isCancelled = FALSE
  /\ buttons = <<>>
  /\ statusEl = 0
  /\ dom = [i \in 1..n |-> i]
  /\ spinner = FALSE
  /\ growing = more
  /\ popup = "none"
  /\ run = [r \in Runs |-> IdleRun]
  /\ feIn = <<>>
  /\ feOut = <<>>
  /\ ext = PopupClosed

\* one request at a playlist that is rendered in full
Init == InitPage(MaxItems, FALSE)

Next ==
  \/ \E req \in Requests : OnDeleteVideos(1, req)
  \/ RunStep(1)
  \/ Intersect(1)
  \/ \E i \in 1..MaxRuns : CancelClick(i)
  \/ PopupOpens

Spec == Init /\ [][Next]_vars

\* the resumptions of the Executor of run r that a timer of the page brings
\* about (a throwing call is not one of them)
ExecTimers(r) ==
  \/ ExecDryNext(r) \/ ExecMenuButton(r) \/ ExecMenuWait(r) \/ ExecMenuFound(r)
  \/ ExecMenuTimeout(r) \/ ExecRemoved(r) \/ ExecDismissed(r) \/ ExecReturns(r)

\* the timers of the page fire in the end
FairSpec == Spec /\ WF_vars(ExecTimers(1))

\* the same, with calls on the page that may throw
NextFault == Next \/ Fault(1)

SpecFault == Init /\ [][NextFault]_vars

\* the messages the listener can get: a ping, and 'deleteVideos' with each
\* parameter present, absent or of the wrong kind
Messages ==
  {[action |-> "ping", hasFilters |-> FALSE, filters |-> F_Watched,
    logic |-> "<undefined>", isDryRun |-> "<undefined>"]}
  \cup [action : {"deleteVideos"}, hasFilters : BOOLEAN, filters : {F_Watched},
        logic : {"<undefined>", "", "OR"},
        isDryRun : {"<undefined>", "yes", "true", "false"}]

\* one request at a playlist that is rendered in full, among other messages
NextMessages ==
  \/ \E m \in Messages : OnMessage(1, m)
  \/ RunStep(1)
  \/ Intersect(1)
  \/ \E i \in 1..MaxRuns : CancelClick(i)
  \/ PopupOpens

SpecMessages == Init /\ [][NextMessages]_vars

\* several requests at a playlist that is rendered in full, none of them
\* meeting a fault
RunsRequests == {q \in Requests : q.filters = F_Watched}

NextRuns ==
  \/ \E r \in Runs, req \in RunsRequests : OnDeleteVideos(r, req)
  \/ \E r \in Runs : RunStep(r)
  \/ \E i \in 1..MaxRuns : CancelClick(i)
  \/ PopupOpens

SpecRuns == Init /\ [][NextRuns]_vars

\* the Loader of one request at a playlist that renders lazily, with timers
\* that may be late; the request matches nothing, so the run ends when
\* loadAllVideos has returned
InitialItems == 1

LoaderRequests == { [filters |-> F_NoMatch, logic |-> "AND", isDryRun |-> FALSE] }

InitLoader == InitPage(InitialItems, TRUE)

\* the resumptions of the Loader of run r
LoaderStep(r) ==
  \/ LoaderBegin(r) \/ LoaderSettled(r) \/ LoaderPoll(r) \/ LoaderNudged(r)
  \/ LoaderReturns(r)

NextLoader ==
  \/ \E req \in LoaderRequests : OnDeleteVideos(1, req)
  \/ LoaderStep(1)
  \/ Intersect(1)
  \/ \E i \in 1..MaxRuns : CancelClick(i)
  \/ AddItem
  \/ SpinnerShows
  \/ SourceStops
  \/ TimerLate(1)

SpecLoader == InitLoader /\ [][NextLoader]_vars

\* the Loader on a page that also drops items
NextShrink == NextLoader \/ RemoveItem

SpecShrink == InitLoader /\ [][NextShrink]_vars

\* the timers of the page fire in the end: every pending resumption of the
\* run is taken
FairSpecLoader == SpecLoader /\ WF_vars(LoaderStep(1))

\* the Filter Engine on its own: a list of videos, a FilterSpec and a logic
MaxVideos == 2

SampleVideos == ExtractAll([i \in 1..3 |-> NodeOf(i)])

VideoLists ==
  UNION {[1..n -> {SampleVideos[i] : i \in 1..Len(SampleVideos)}] : n \in 0..MaxVideos}

SampleFilters ==
  [titleContains     : {<<>>, <<"c","a","t">>, <<" ",",">>},
   channelName       : {<<>>, <<"B","O","B">>},
   isWatched         : {NoWatched,
                        [present |-> TRUE, enabled |-> TRUE, criteria |-> "any", value |-> 0],
                        [present |-> TRUE, enabled |-> TRUE, criteria |-> "percent", value |-> 45],
                        [present |-> TRUE, enabled |-> TRUE, criteria |-> "percent", value |-> 0]},
   deleteUnavailable : BOOLEAN,
   age               : {NoAge, [present |-> TRUE, value |-> 2, unit |-> "weeks"],
                        [present |-> TRUE, value |-> 0, unit |-> "days"]}]

InitFilter ==
  /\ isCancelled = FALSE
  /\ buttons = <<>>
  /\ statusEl = 0
  /\ dom = <<>>
  /\ spinner = FALSE
  /\ growing = FALSE
  /\ popup = "none"
  /\ run = [r \in Runs |-> IdleRun]
  /\ \E vs \in VideoLists, f \in SampleFilters, l \in {"AND", "OR"} :
       feIn = <<[videos |-> vs, filters |-> f, logic |-> l]>>
  /\ feOut = <<>>
  /\ ext = PopupClosed

\* getVideosToDeleteAndReasons is called on the input
FilterApply ==
  /\ feIn # <<>>
  /\ feOut = <<>>
  /\ feOut' = <<getVideosToDeleteAndReasons(feIn[1].videos, feIn[1].filters,
                                            feIn[1].logic)>>
  /\ UNCHANGED <<isCancelled, buttons, statusEl, pageVars, run, feIn, ext>>

SpecFilter == InitFilter /\ [][FilterApply]_vars

\* one sub-filter against one item.  The items are nodes of the first kind
\* with every marker the page may render on them: a resume overlay with a
\* progress width (or none), the watched overlay, one age fragment (or none).
\* days is the age the fragment states, -1 when it states none
ResumeWidths ==
  {NoValue, <<>>, <<"0","%">>, <<"4","4","%">>, <<"4","5","%">>, <<"4","6","%">>, <<"1","0","0","%">>, <<"a","u","t","o">>}

AgeFragments ==
  { [text |-> NoValue,            days |-> 0 - 1],
    [text |-> <<"l","o","n","g"," ","a","g","o">>,      days |-> 0 - 1],
    [text |-> <<"3"," ","h","o","u","r","s"," ","a","g","o">>,   days |-> 0 - 1],
    [text |-> <<"0"," ","d","a","y","s"," ","a","g","o">>,    days |-> 0],
    [text |-> <<"1"," ","d","a","y"," ","a","g","o">>,     days |-> 1],
    [text |-> <<"2"," ","w","e","e","k","s"," ","a","g","o">>,   days |-> 14],
    [text |-> <<"3","0"," ","d","a","y","s"," ","a","g","o">>,   days |-> 30],
    [text |-> <<"1"," ","m","o","n","t","h"," ","a","g","o">>,   days |-> 30],
    [text |-> <<"3","1"," ","d","a","y","s"," ","a","g","o">>,   days |-> 31],
    [text |-> <<"a"," ","y","e","a","r"," ","a","g","o">>,    days |-> 365] }

MatchNode(width, watched, fragment) ==
  [NodeOf(1) EXCEPT !.resumeWidth = width, !.watched = watched,
                    !.meta = IF fragment.text = NoValue
                               THEN << <<"9"," ","v","i","e","w","s">> >>
                               ELSE << <<"9"," ","v","i","e","w","s">>, fragment.text >>]

WatchedFilter(criteria, value) ==
  [F_NoMatch EXCEPT !.titleContains = <<>>,
     !.isWatched = [present |-> TRUE, enabled |-> TRUE,
                    criteria |-> criteria, value |-> value]]

AgeFilter(value, unit) ==
  [F_NoMatch EXCEPT !.titleContains = <<>>,
     !.age = [present |-> TRUE, value |-> value, unit |-> unit]]

MatchFilters ==
  {WatchedFilter("any", 0)}
    \cup {WatchedFilter("percent", v) : v \in {0 - 5, 0, 1, 45, 50, 100, 101}}
    \cup {AgeFilter(v, u) : v \in {0, 1, 2, 30}, u \in {"days", "weeks", "months", "years"}}

InitMatch ==
  /\ isCancelled = FALSE
  /\ buttons = <<>>
  /\ statusEl = 0
  /\ dom = <<>>
  /\ spinner = FALSE
  /\ growing = FALSE
  /\ popup = "none"
  /\ run = [r \in Runs |-> IdleRun]
  /\ \E w \in ResumeWidths, wt \in BOOLEAN, a \in AgeFragments,
        f \in MatchFilters, l \in {"AND", "OR"} :
       feIn = <<[videos |-> ExtractAll(<<MatchNode(w, wt, a)>>), filters |-> f,
                 logic |-> l, days |-> a.days]>>
  /\ feOut = <<>>
  /\ ext = PopupClosed

SpecMatch == InitMatch /\ [][FilterApply]_vars

(***************************************************************************)
(* The text functions on their own: parseAgeToDays, the age switch of the  *)
(* engine, parseFilterString, the criteria header of the report,           *)
(* extractVideoData.  feIn holds one call, feOut its result.               *)
(***************************************************************************)

\* String.prototype.toUpperCase on one character
UpperChar(c) ==
  IF \E i \in 1..26 : LowerChars[i] = c
    THEN UpperChars[CHOOSE i \in 1..26 : LowerChars[i] = c]
    ELSE c

\* s with the characters at the positions P in upper case
UpperAt(s, P) == [i \in 1..Len(s) |-> IF i \in P THEN UpperChar(s[i]) ELSE s[i]]

\* the re-casings taken of s: none, one position, the whole string
Casings(s) == {{}, 1..Len(s)} \cup {{i} : i \in 1..Len(s)}

\* age texts as the page renders them: an optional lead, a count, white
\* space, a unit, a tail; days is what the text states
AgeCounts ==
  { [text |-> <<"a">>,  n |-> 1], [text |-> <<"a","n">>, n |-> 1],
    [text |-> <<"0">>,  n |-> 0], [text |-> <<"1">>,  n |-> 1],
    [text |-> <<"3">>,  n |-> 3], [text |-> <<"1","2">>, n |-> 12] }

AgeUnits ==
  { [text |-> Str_day,   factor |-> 1],  [text |-> Str_week, factor |-> 7],
    [text |-> Str_month, factor |-> 30], [text |-> Str_year, factor |-> 365] }

AgeLeads == { <<>>, <<"S","t","r","e","a","m","e","d"," ">> }
AgeGaps  == { <<" ">>, <<" "," ">> }
AgeTails == { <<" ","a","g","o">>, <<"s"," ","a","g","o">> }

AgeTexts ==
  { [text |-> l \o c.text \o g \o u.text \o t, days |-> c.n * u.factor] :
      l \in AgeLeads, c \in AgeCounts, g \in AgeGaps, u \in AgeUnits, t \in AgeTails }

\* texts without the pattern
PatternlessTexts ==
  { <<>>, <<"g","a","r","b","a","g","e">>, <<"a","g","o">>, <<"3"," ","h","o","u","r","s"," ","a","g","o">>, <<"a","d","a","y"," ","a","g","o">>,
    <<"3","w","e","e","k","s"," ","a","g","o">>, <<"y","e","a","r","s"," ","a","g","o">>, <<"a"," ","f","e","w"," ","d","a","y","s"," ","a","g","o">> }

AgeInputs ==
  AgeTexts \cup { [text |-> t, days |-> 0 - 1] : t \in PatternlessTexts }

\* filter strings: quoted phrases and plain text without quotes, in a row
MaxSegments == 3
MaxAgeValue == 3

QuotedSegments == { <<"L","e","t","'","s"," ","p","l","a","y">>, <<" ","x",",","Y"," ">>, <<" ">> }
PlainSegments  == { <<>>, <<"r","e","v","i","e","w",","," ">>, <<" ","B",",",",","b"," ">> }

Segments ==
  { [quoted |-> TRUE,  text |-> q] : q \in QuotedSegments }
    \cup { [quoted |-> FALSE, text |-> p] : p \in PlainSegments }

SegmentRows == UNION { [1..n -> Segments] : n \in 0..MaxSegments }

RECURSIVE RowText(_)
RowText(row) ==
  IF row = <<>> THEN <<>>
  ELSE (IF Head(row).quoted THEN <<"\"">> \o Head(row).text \o <<"\"">>
        ELSE Head(row).text) \o RowText(Tail(row))

\* filter strings with quotes that do not pair
StrayQuoteTexts ==
  { <<"a","\"","B">>, <<"\"","\"","a","\"","B","\"">>, <<"\"">>, <<"\"","a","\"",",","\""," ","b">> }

\* the FilterSpecs and logics a report can be written for: those under which
\* one of the sample videos is a candidate.  The engagement criteria are
\* those of the Filters type
ReportCalls ==
  { q \in (SampleFilters \cup
             { [g EXCEPT !.isWatched.criteria = "seconds"] :
                 g \in {h \in SampleFilters : h.isWatched.enabled} })
            \X {"AND", "OR"} :
      \E i \in 1..Len(SampleVideos) :
        getVideosToDeleteAndReasons(<<SampleVideos[i]>>, q[1], q[2]) # <<>> }

\* the widths the progress bar of a resume overlay can carry, each with the
\* whole number it starts with (0 when it starts with none); no overlay: -1
ProgressWidths ==
  { [text |-> NoValue,      n |-> 0 - 1],
    [text |-> <<>>,         n |-> 0],
    [text |-> <<"a","u","t","o">>,    n |-> 0],
    [text |-> <<"0","%">>,      n |-> 0],
    [text |-> <<"7","p","x">>,     n |-> 7],
    [text |-> <<"4","5","%">>,     n |-> 45],
    [text |-> <<"4","5",".","5","%">>,   n |-> 45],
    [text |-> <<"1","0","0","%">>,    n |-> 100],
    [text |-> <<"1","5","0","%">>,    n |-> 150] }

\* the nodes given to extractVideoData: every signal present or missing
ExtractNodes ==
  { [id |-> 1, titleText |-> t, href |-> h, channelText |-> c, watched |-> wt,
     resumeWidth |-> w.text, meta |-> m, menuButton |-> TRUE] :
      t \in {NoValue, <<>>, <<" ","C","a","t"," ">>},
      h \in {NoValue, <<"/","w">>, <<"h","t","t","p",":","/","/","y">>, <<"w">>},
      c \in {NoValue, <<" ","B","o","b">>},
      wt \in BOOLEAN,
      w \in ProgressWidths,
      m \in {<<>>, << <<"9"," ","v","i","e","w","s">> >>, << <<"9"," ","v","i","e","w","s">>, <<"2"," ","w","e","e","k","s"," ","a","g","o"," ">> >>} }

WidthOf(node) == CHOOSE w \in ProgressWidths : w.text = node.resumeWidth

InitPure ==
  /\ isCancelled = FALSE
  /\ buttons = <<>>
  /\ statusEl = 0
  /\ dom = <<>>
  /\ spinner = FALSE
  /\ growing = FALSE
  /\ popup = "none"
  /\ run = [r \in Runs |-> IdleRun]
  /\ \/ \E a \in AgeInputs : \E P \in Casings(a.text) :
          feIn = <<[fn |-> "parseAgeToDays", text |-> UpperAt(a.text, P),
                    base |-> a.text, days |-> a.days]>>
     \/ \E v \in 0..MaxAgeValue, u \in {"days", "weeks", "months", "years"} :
          feIn = <<[fn |-> "filterAgeInDays", filters |-> AgeFilter(v, u)]>>
     \/ \E row \in SegmentRows :
          feIn = <<[fn |-> "parseFilterString", text |-> RowText(row), row |-> row]>>
     \/ \E t \in StrayQuoteTexts \cup {NoValue} :
          feIn = <<[fn |-> "parseFilterString", text |-> t, row |-> <<>>]>>
     \/ \E node \in ExtractNodes :
          feIn = <<[fn |-> "extractVideoData", node |-> node,
                    width |-> WidthOf(node).n]>>
     \/ \E q \in ReportCalls :
          feIn = <<[fn |-> "criteriaHeader", filters |-> q[1], logic |-> q[2]]>>
  /\ feOut = <<>>
  /\ ext = PopupClosed

Calls(fn) == feIn # <<>> /\ feOut = <<>> /\ feIn[1].fn = fn

ParseAgeApply ==
  /\ Calls("parseAgeToDays")
  /\ feOut' = <<parseAgeToDays(feIn[1].text)>>
  /\ UNCHANGED <<isCancelled, buttons, statusEl, pageVars, run, feIn, ext>>

FilterAgeApply ==
  /\ Calls("filterAgeInDays")
  /\ feOut' = <<filterAgeInDays(feIn[1].filters)>>
  /\ UNCHANGED <<isCancelled, buttons, statusEl, pageVars, run, feIn, ext>>

ParseFilterApply ==
  /\ Calls("parseFilterString")
  /\ feOut' = <<parseFilterString(feIn[1].text)>>
  /\ UNCHANGED <<isCancelled, buttons, statusEl, pageVars, run, feIn, ext>>

\* the criteria header of a report is written
CriteriaHeaderApply ==
  /\ Calls("criteriaHeader")
  /\ feOut' = <<criteriaHeader(feIn[1].filters, feIn[1].logic)>>
  /\ UNCHANGED <<isCancelled, buttons, statusEl, pageVars, run, feIn, ext>>

ExtractApply ==
  /\ Calls("extractVideoData")
  /\ feOut' = <<extractVideoData(feIn[1].node)>>
  /\ UNCHANGED <<isCancelled, buttons, statusEl, pageVars, run, feIn, ext>>

NextPure ==
  \/ ParseAgeApply \/ FilterAgeApply \/ ParseFilterApply \/ CriteriaHeaderApply
  \/ ExtractApply

SpecPure == InitPure /\ [][NextPure]_vars

\* the popup and the tab on their own
InitPopup == InitPage(MaxItems, FALSE)

NextPopup ==
  \/ DOMContentLoaded \/ PingCallback \/ InjectCallback \/ DeleteClick
  \/ SendCallback \/ PopupCloses \/ HistoryStateUpdated

SpecPopup == InitPopup /\ [][NextPopup]_vars

(***************************************************************************)
(* The Filter Engine's contract                                            *)
(***************************************************************************)

SubFilters == 1..5

\* sub-filter i of the FilterSpec f is active
SubActive(i, f) ==
  CASE i = 1 -> f.isWatched.present /\ f.isWatched.enabled
    [] i = 2 -> f.deleteUnavailable
    [] i = 3 -> parseFilterString(f.titleContains) # <<>>
    [] i = 4 -> parseFilterString(f.channelName) # <<>>
    [] OTHER -> f.age.present /\ f.age.value # 0
                  /\ f.age.unit \in {"days", "weeks", "months", "years"}

\* some term of the list occurs in the field, case ignored
AnyTermIn(terms, field) ==
  \E k \in 1..Len(terms) : Includes(ToLowerCase(field), terms[k])

\* the video v matches sub-filter i of f
SubMatch(i, v, f) ==
  CASE i = 1 -> \/ f.isWatched.criteria = "any" /\ v.isWatched
                \/ /\ f.isWatched.criteria = "percent"
                   /\ f.isWatched.value > 0
                   /\ v.watchPercentage >= f.isWatched.value
    [] i = 2 -> v.title \in {Str_Private, Str_Deleted}
    [] i = 3 -> AnyTermIn(parseFilterString(f.titleContains), v.title)
    [] i = 4 -> AnyTermIn(parseFilterString(f.channelName), v.channelName)
    [] OTHER -> /\ v.ageString # NoValue /\ v.ageString # <<>>
                /\ ~parseAgeToDays(v.ageString).isNull
                /\ parseAgeToDays(v.ageString).v > filterAgeInDays(f).v

ActiveCount(f) == Cardinality({i \in SubFilters : SubActive(i, f)})
HitCount(v, f) == Cardinality({i \in SubFilters : SubActive(i, f) /\ SubMatch(i, v, f)})

\* the item v is to be included
Included(v, f, logic) ==
  IF logic = "OR" THEN HitCount(v, f) > 0
  ELSE HitCount(v, f) = ActiveCount(f) /\ ActiveCount(f) > 0

\* positions of the input list whose item is to be included, in order
RECURSIVE IncludedFrom(_, _, _, _)
IncludedFrom(vs, i, f, logic) ==
  IF i > Len(vs) THEN <<>>
  ELSE (IF Included(vs[i], f, logic) THEN <<i>> ELSE <<>>)
         \o IncludedFrom(vs, i + 1, f, logic)

\* the output out is the items of vs at the positions ps, each with as many
\* reasons as sub-filters matched it
OutputIs(out, vs, ps, f) ==
  /\ Len(out) = Len(ps)
  /\ \A k \in 1..Len(ps) :
       /\ out[k].element = vs[ps[k]].element
       /\ out[k].title = vs[ps[k]].title
       /\ Len(out[k].reasons) = HitCount(vs[ps[k]], f)

\* C1: getVideosToDeleteAndReasons includes an item iff under OR at least
\* one active sub-filter matched it, under AND every active sub-filter
\* matched it and at least one sub-filter is active; the included items
\* keep their order and carry one reason per sub-filter that matched
C1_InclusionRule ==
  feOut # <<>> =>
    OutputIs(feOut[1], feIn[1].videos,
             IncludedFrom(feIn[1].videos, 1, feIn[1].filters, feIn[1].logic),
             feIn[1].filters)

\* under AND with two active sub-filters, an item matched by one of them is
\* left out and an item matched by both is included
C1_Witness ==
  /\ feOut # <<>>
  /\ feIn[1].logic = "AND"
  /\ ActiveCount(feIn[1].filters) = 2
  /\ Len(feIn[1].videos) = 2
  /\ HitCount(feIn[1].videos[1], feIn[1].filters) = 1
  /\ HitCount(feIn[1].videos[2], feIn[1].filters) = 2
  /\ Len(feOut[1]) = 1
  /\ feOut[1][1].element = feIn[1].videos[2].element

(***************************************************************************)
(* The Bulk Action Executor's contract                                     *)
(***************************************************************************)

\* the candidates' positions an outcome list names, in the list's order
CandsOf(list) == [i \in 1..Len(list) |-> list[i].cand]

Increasing(seq) == \A i, j \in 1..Len(seq) : i < j => seq[i] < seq[j]

InList(list, c) == \E i \in 1..Len(list) : list[i].cand = c

\* the first k candidates of run rr, and no others, are in its outcome
\* lists: each once, in one list only, in the candidates' order
ProcessedExactly(rr, k) ==
  /\ Len(rr.deleted) + Len(rr.failed) = k
  /\ Increasing(CandsOf(rr.deleted))
  /\ Increasing(CandsOf(rr.failed))
  /\ \A c \in 1..k : InList(rr.deleted, c) # InList(rr.failed, c)
  /\ \A i \in 1..Len(rr.deleted) :
       rr.deleted[i].title = rr.candidates[rr.deleted[i].cand].title
  /\ \A i \in 1..Len(rr.failed) :
       rr.failed[i].title = rr.candidates[rr.failed[i].cand].title

\* the page as the request found it
PageUntouched == dom = [i \in 1..MaxItems |-> i] /\ popup = "none"

\* C2: a dry run whose loop is not stopped by a cancellation records each of
\* its N candidates as succeeded, with the candidate's reasons, records none
\* as failed, and at no point issues scrollIntoView, a menu click, a remove
\* click or a menu dismissal
C2_DryRunTouchesNothing ==
  \A r \in Runs : run[r].isDryRun =>
    /\ run[r].prims = {}
    /\ run[r].failed = <<>>
    /\ PageUntouched
    /\ (run[r].pc = "done" /\ run[r].brokeAt < 0 =>
          /\ Len(run[r].deleted) = Len(run[r].candidates)
          /\ \A i \in 1..Len(run[r].deleted) :
               /\ run[r].deleted[i].cand = i
               /\ run[r].deleted[i].reasons = run[r].candidates[i].reasons)

C2_Witness ==
  \E r \in Runs :
    /\ run[r].isDryRun /\ run[r].pc = "done" /\ run[r].brokeAt < 0
    /\ Len(run[r].candidates) >= 2
    /\ Len(run[r].deleted) = Len(run[r].candidates)
    /\ run[r].outcome = "download"

\* C3: when Cancel is pressed while k candidates have begun, no further
\* candidate begins; at the end of the Executor exactly these k candidates
\* are in succeeded and failed together, the other N-k in neither
C3_CancelStopsBeforeNext ==
  \A r \in Runs : run[r].pressedAt >= 0 =>
    /\ Begun(run[r]) = run[r].pressedAt
    /\ (run[r].pc \in {"E_final", "done"} =>
          ProcessedExactly(run[r], run[r].pressedAt))

C3_Witness ==
  \E r \in Runs :
    /\ run[r].pc = "done" /\ run[r].pressedAt = 1 /\ run[r].brokeAt = 1
    /\ Len(run[r].candidates) >= 2
    /\ Len(run[r].deleted) + Len(run[r].failed) = 1

FailureReasons ==
  {"Menu button not found", "Menu popup not found",
   "Remove button not found in menu", "Exception during removal"}

\* C4: in a real run the candidates are processed in order, each ending once
\* in exactly one of succeeded and failed, a failure with one of the reason
\* strings and without a retry; a loop that no cancellation stops
\* processes all N candidates
C4_EachCandidateOnce ==
  \A r \in Runs : ~run[r].isDryRun =>
    /\ ProcessedExactly(run[r], run[r].idx)
    /\ \A i \in 1..Len(run[r].failed) :
         \E w \in FailureReasons : run[r].failed[i].reasons = <<w>>
    /\ (run[r].pc \in {"E_final", "done"} /\ run[r].brokeAt < 0
          /\ run[r].candidates # <<>> => run[r].idx = Len(run[r].candidates))

C4_Witness ==
  \E r \in Runs :
    /\ ~run[r].isDryRun /\ run[r].pc = "done" /\ run[r].brokeAt < 0
    /\ Len(run[r].candidates) >= 2
    /\ run[r].idx = Len(run[r].candidates)
    /\ Len(run[r].deleted) >= 1 /\ Len(run[r].failed) >= 1

(***************************************************************************)
(* The Loader's contract                                                   *)
(***************************************************************************)

InRound(rr) == rr.pc \in {"L_settle", "L_poll", "L_nudge"}

\* C5: loadAllVideos always terminates: no round of its loop starts once
\* MAX_TOTAL_MS have passed since the loop started, whatever the source
\* does, and a run that has begun comes to its end
C5_LoaderTerminatesAtCap ==
  /\ [](~run[1].lateRound)
  /\ (run[1].pc # "idle") ~> (run[1].pc = "done")

\* the loop is left at the cap, after a round that saw the list grow, while
\* the source can still grow
C5_Witness ==
  /\ run[1].pc = "L_final"
  /\ run[1].exitReason = "cap"
  /\ run[1].noGrowCount = 0
  /\ run[1].lastCount > InitialItems
  /\ growing

\* C6: no round of the Loader begins after NO_GROW_THRESHOLD rounds in a row
\* without growth, and when the source had stopped growing by the time the
\* loop was left, the count loadAllVideos returns is the number of items
\* rendered
C6_LoaderStopsAtThreshold ==
  /\ InRound(run[1]) => run[1].noGrowCount < NO_GROW_THRESHOLD
  /\ run[1].pc = "L_final" => run[1].noGrowCount <= NO_GROW_THRESHOLD
  /\ run[1].pc \in {"L_final", "done"} /\ run[1].stopped =>
       run[1].finalCount = Len(dom)

\* the source rendered items, then stopped; the loop was left at the threshold
C6_Witness ==
  /\ run[1].pc = "L_final"
  /\ run[1].exitReason = "threshold"
  /\ run[1].stopped /\ ~spinner
  /\ run[1].noGrowCount = NO_GROW_THRESHOLD
  /\ run[1].finalCount = MaxItems
  /\ MaxItems > InitialItems

\* C11: when the loop of the Loader has been left, on whichever path, the
\* structural-change observer and every visibility observer the Loader
\* registered are disconnected, and stay so until the run has ended: no
\* callback of theirs can fire once loadAllVideos has returned
C11_ObserversDisconnected ==
  ~(run[1].pc \in {"idle", "L_top"} \/ InRound(run[1])) =>
    /\ ~run[1].moOn
    /\ run[1].ioNode = 0
    /\ run[1].ioLive = 0
    /\ ~ENABLED Intersect(1)

\* the loop was left on cancellation after a round that had its observers
C11_Witness ==
  /\ run[1].pc = "L_final"
  /\ run[1].exitReason = "cancel"
  /\ run[1].noGrowCount >= 1
  /\ run[1].ioLive = 0 /\ ~run[1].moOn

(***************************************************************************)
(* Cancellation, cleanup and exclusion                                     *)
(***************************************************************************)

\* C7: when Cancel is pressed while the Loader of a run is running, the run
\* never enters the Executor, has no candidates, issues no removal
\* interaction, leaves the list as it was and ends reporting the
\* cancellation
C7_CancelInLoaderStopsRun ==
  \A r \in Runs : run[r].pressedInLoader =>
    /\ ~InExecutor(run[r])
    /\ run[r].candidates = <<>>
    /\ run[r].prims = {}
    /\ run[r].deleted = <<>> /\ run[r].failed = <<>>
    /\ PageUntouched
    /\ (run[r].pc = "done" => run[r].outcome = "cancelled-loading")

C7_Witness ==
  \E r \in Runs :
    /\ run[r].pressedInLoader /\ run[r].pc = "done"
    /\ run[r].outcome = "cancelled-loading"
    /\ run[r].filters = F_Either /\ ~run[r].isDryRun

\* C8: however a run ends, its cleanup has run once, and the cancel button
\* and the status indicator it injected are gone and the flag is false
C8_CleanupRemovesAllUI ==
  \A r \in Runs : run[r].pc = "done" =>
    /\ run[r].cleanups = 1
    /\ ~run[r].uiLeft
    /\ ~isCancelled

InSequence(rr) == rr.pc \in {"E_scroll", "E_click", "E_wait", "E_remove", "E_dismiss"}

\* C9: at any moment at most one candidate, of at most one run, is between
\* its scroll-into-view step and the end of its menu/remove step
C9_OneSequenceAtATime ==
  Cardinality({r \in Runs : InSequence(run[r])}) <= 1

Matched == feOut # <<>> /\ feOut[1] # <<>>

EngagementApplied ==
  feOut # <<>> /\ feIn[1].filters.isWatched.enabled

\* C12: with the engagement filter enabled in percent mode the item matches
\* iff the threshold is positive and the item's percentage is at least the
\* threshold (a threshold of zero or below matches nothing); in any mode it
\* matches iff it is engaged at all
C12_EngagementMatch ==
  EngagementApplied =>
    IF feIn[1].filters.isWatched.criteria = "percent"
      THEN Matched <=> /\ feIn[1].filters.isWatched.value > 0
                       /\ feIn[1].videos[1].watchPercentage
                            >= feIn[1].filters.isWatched.value
      ELSE Matched <=> feIn[1].videos[1].isWatched

\* an item at 45% is matched by the threshold 45
C12_Witness ==
  /\ EngagementApplied
  /\ feIn[1].filters.isWatched.criteria = "percent"
  /\ feIn[1].filters.isWatched.value = 45
  /\ feIn[1].videos[1].watchPercentage = 45
  /\ Matched

\* days per unit of the age filter
UnitFactor(unit) ==
  CASE unit = "days" -> 1 [] unit = "weeks" -> 7
    [] unit = "months" -> 30 [] unit = "years" -> 365

AgeApplied ==
  feOut # <<>> /\ feIn[1].filters.age.present /\ feIn[1].filters.age.value > 0

\* C13: the item matches the age sub-filter iff its age text is present and
\* parseable and states strictly more days than the filter's threshold; an
\* item as old as the threshold, or of unknown age, does not match
C13_AgeMatch ==
  AgeApplied =>
    (Matched <=>
       /\ feIn[1].days >= 0
       /\ feIn[1].days > feIn[1].filters.age.value * UnitFactor(feIn[1].filters.age.unit))

\* "1 month ago" against the threshold of 1 month is not matched
C13_Witness ==
  /\ AgeApplied
  /\ feIn[1].videos[1].ageString = <<"1"," ","m","o","n","t","h"," ","a","g","o">>
  /\ feIn[1].filters.age.value = 1 /\ feIn[1].filters.age.unit = "months"
  /\ ~Matched

(***************************************************************************)
(* Age Normalizer and Term Parser                                          *)
(***************************************************************************)

Returned(fn) == feIn # <<>> /\ feOut # <<>> /\ feIn[1].fn = fn

\* the text is given as the page renders it, not re-cased
AsRendered == feIn[1].text = feIn[1].base

\* C14: the age filter (value, unit) gives value x factor days and a text
\* with the pattern gives count x factor days, with the factors 1, 7, 30,
\* 365 and "a"/"an" counting 1; a text without the pattern gives null
C14_AgeFactors ==
  /\ Returned("filterAgeInDays") /\ feIn[1].filters.age.value > 0 =>
       feOut[1] = Number(feIn[1].filters.age.value
                           * UnitFactor(feIn[1].filters.age.unit))
  /\ Returned("parseAgeToDays") /\ AsRendered =>
       feOut[1] = IF feIn[1].days >= 0 THEN Number(feIn[1].days) ELSE NullNumber

\* "a year ago" gave 365
C14_Witness ==
  /\ Returned("parseAgeToDays")
  /\ feIn[1].text = <<"a"," ","y","e","a","r"," ","a","g","o">>
  /\ feOut[1] = Number(365)

\* C15: parseAgeToDays gives for a re-casing of an age text what it gives
\* for the text itself
C15_AgeCaseInsensitive ==
  Returned("parseAgeToDays") => feOut[1] = parseAgeToDays(feIn[1].base)

\* the texts of the quoted (or of the plain) segments of a row, in order
RECURSIVE SegmentTexts(_, _)
SegmentTexts(row, quoted) ==
  IF row = <<>> THEN <<>>
  ELSE (IF Head(row).quoted = quoted THEN <<Head(row).text>> ELSE <<>>)
         \o SegmentTexts(Tail(row), quoted)

RECURSIVE Concat(_)
Concat(texts) == IF texts = <<>> THEN <<>> ELSE Head(texts) \o Concat(Tail(texts))

\* trimmed, lower-cased, the empty ones dropped
Cleaned(texts) ==
  SelectSeq([i \in 1..Len(texts) |-> ToLowerCase(Trim(texts[i]))], NonEmptyTerm)

CleanTerm(t) ==
  /\ Len(t) > 0
  /\ ~IsSpace(t[1]) /\ ~IsSpace(t[Len(t)])
  /\ \A i \in 1..Len(t) : \A k \in 1..26 : t[i] # UpperChars[k]

BuiltFrom(out, vs, P) ==
  /\ Len(out) = Cardinality(P)
  /\ \A k \in 1..Len(out) :
       /\ out[k].element  = vs[InOrder(P)[k]].element
       /\ out[k].title    = vs[InOrder(P)[k]].title
       /\ out[k].videoUrl = vs[InOrder(P)[k]].videoUrl

\* C17: the candidates are a subsequence of the input list: they are the
\* items at some positions of it, each position once and in increasing
\* order, and each carries the handle, title and URL of its item
C17_CandidatesAreSubsequence ==
  feOut # <<>> =>
    \E P \in SUBSET (1..Len(feIn[1].videos)) : BuiltFrom(feOut[1], feIn[1].videos, P)

\* the second of two different items was taken and the first was not
C17_Witness ==
  /\ feOut # <<>>
  /\ Len(feIn[1].videos) = 2
  /\ feIn[1].videos[1].element # feIn[1].videos[2].element
  /\ Len(feOut[1]) = 1
  /\ feOut[1][1].element = feIn[1].videos[2].element
  /\ feOut[1][1].videoUrl # NoValue

(***************************************************************************)
(* The report                                                              *)
(***************************************************************************)

\* deleteVideosAndCreateSummary of run r has built its summaryText
Summarised(r) == run[r].summary.kind # "none"

NoneProcessed(r) == Len(run[r].deleted) = 0 /\ Len(run[r].failed) = 0

SubItem(i) ==
  CASE i = 1 -> "isWatched" [] i = 2 -> "deleteUnavailable"
    [] i = 3 -> "titleContains" [] i = 4 -> "channelName" [] OTHER -> "age"

InHeader(header, i) ==
  \E k \in 1..Len(header.lines) : header.lines[k].item = SubItem(i)

\* C19: the criteria header names the logic and lists a sub-filter iff that
\* sub-filter was active in the Filter Engine
C19_HeaderListsActive ==
  Returned("criteriaHeader") =>
    /\ feOut[1].logic = feIn[1].logic
    /\ \A i \in SubFilters :
         InHeader(feOut[1], i) <=> SubActive(i, feIn[1].filters)

\* the number of candidates run rr took up before its loop ended
TakenUp(rr) == IF rr.brokeAt >= 0 THEN rr.brokeAt ELSE Len(rr.candidates)

\* the blocks are those of the candidates at increasing positions, each with
\* its candidate's title
BlocksInOrder(blocks, cands) ==
  /\ Increasing(CandsOf(blocks))
  /\ \A i \in 1..Len(blocks) :
       /\ blocks[i].cand \in 1..Len(cands)
       /\ blocks[i].title = cands[blocks[i].cand].title

OnPage(id) == \E i \in 1..Len(dom) : dom[i] = id

FullReportOf(rr, s) ==
  /\ s.counts.matched = Len(rr.candidates)
  /\ s.counts.removed = Len(s.removed)
  /\ s.counts.failed = Len(s.failed)
  /\ BlocksInOrder(s.removed, rr.candidates)
  /\ BlocksInOrder(s.failed, rr.candidates)
  /\ \A c \in 1..Len(rr.candidates) :
       IF c <= TakenUp(rr)
         THEN InList(s.removed, c) # InList(s.failed, c)
         ELSE ~InList(s.removed, c) /\ ~InList(s.failed, c)
  /\ ~rr.isDryRun =>
       \A i \in 1..Len(s.removed) : ~OnPage(rr.candidates[s.removed[i].cand].element)

\* C20: in a full report Matched is the number of candidates handed to the
\* Executor, Removed / Would remove the number of succeeded items, Failed
\* the number of failed ones, and the body has one block for each succeeded
\* item, then one for each failed item, each kind in processing order
C20_ReportCountsAndBlocks ==
  \A r \in Runs : run[r].summary.kind = "full" => FullReportOf(run[r], run[r].summary)

\* a real run over three candidates: two removed, one failed
C20_Witness ==
  /\ run[1].pc = "done" /\ ~run[1].isDryRun
  /\ run[1].summary.kind = "full"
  /\ run[1].summary.counts = [dryRun |-> FALSE, matched |-> 3, removed |-> 2, failed |-> 1]

\* C21: the summary is shown as an inline message iff nothing was processed
\* in the run; with an item succeeded or failed it is offered as a file
C21_InlineIffNothingProcessed ==
  \A r \in Runs : run[r].outcome \in {"alert", "download"} =>
    (run[r].outcome = "alert" <=> NoneProcessed(r))

(***************************************************************************)
(* Item Extractor                                                          *)
(***************************************************************************)

Extracted == Returned("extractVideoData") /\ ~feOut[1].isNull

C23_EngagementMarkers ==
  Extracted =>
    IF feIn[1].node.resumeWidth # NoValue
      THEN feOut[1].isWatched /\ feOut[1].watchPercentage = feIn[1].width
    ELSE IF feIn[1].node.watched
      THEN feOut[1].isWatched /\ feOut[1].watchPercentage = 100
    ELSE ~feOut[1].isWatched /\ feOut[1].watchPercentage = 0

\* both markers on one node: the resume overlay's 45% was taken
C23_Witness ==
  /\ Extracted
  /\ feIn[1].node.watched /\ feIn[1].width = 45
  /\ feOut[1].watchPercentage = 45

\* C30: the watchPercentage of every record is in 0..100
C30_PercentageInRange ==
  Extracted => feOut[1].watchPercentage \in 0..100


(***************************************************************************)
(* The popup's handshake and validation                                    *)
(***************************************************************************)

AgeNotPositive == ext.form.ageValueStr \in {<<"0">>, <<"-","3">>, <<"x">>}

\* the form holds a watched value that is no positive number, or as a
\* percentage lies outside 1..100
WatchedNotValid ==
  \/ ext.form.watchedValueStr \in {<<"0">>, <<"-","1">>, <<"x">>}
  \/ ext.form.watchedCriteria = "percent" /\ ext.form.watchedValueStr = <<"1","0","1">>

WaitResumes(r) == LoaderSettled(r) \/ LoaderPoll(r)

\* C26: when the growth wait ends with the item count or scrollHeight above
\* the recorded values, noGrowCount is 0 afterwards and the next round begins
\* (or the loop ends on the flag or the cap), no stop condition being tried
C26_GrowthResetsCounter ==
  [][\A r \in Runs :
       /\ WaitResumes(r)
       /\ VideoCount > run[r].lastCount \/ scrollHeight > run[r].prevScrollHeight
       => /\ run'[r].noGrowCount = 0
          /\ \/ run'[r].pc = "L_settle"
             \/ run'[r].pc = "L_final" /\ run'[r].exitReason \in {"cancel", "cap"}]_vars


\* the growth wait of run r ends in this step on a round without growth of
\* the item count
NoGrowthRoundEnds(r) ==
  WaitResumes(r) /\ run'[r].pc # "L_poll" /\ ~(VideoCount > run[r].lastCount)

\* the loop of run r stops in this step
Stops(r) == run[r].pc # "L_final" /\ run'[r].pc = "L_final"

\* C27: a round without growth stops the loop at once when the placeholder is
\* absent and the last item was reported visible; otherwise it stops the loop
\* only with noGrowCount at NO_GROW_THRESHOLD; a round in which the item count
\* grew stops the loop only on the flag or the cap
C27_StopConditions ==
  [][\A r \in Runs :
       /\ NoGrowthRoundEnds(r) =>
            IF ~spinner /\ run'[r].lastNodeVisible
              THEN Stops(r) /\ run'[r].exitReason = "end"
              ELSE Stops(r) => run'[r].noGrowCount >= NO_GROW_THRESHOLD
       /\ WaitResumes(r) /\ VideoCount > run[r].lastCount /\ Stops(r)
            => run'[r].exitReason \in {"cancel", "cap"}]_vars

\* the loop has stopped on the first round without growth, the last item
\* visible and no placeholder shown
C27_Witness ==
  /\ run[1].pc = "L_final" /\ run[1].exitReason = "end"
  /\ run[1].noGrowCount = 1 /\ run[1].noGrowCount < NO_GROW_THRESHOLD


\* the scroll commands run r issues in this step with the flag set
ScrollsIssued(r) ==
  (run'[r].acts \ run[r].acts) \cap {"scrollBottom", "scrollBy"}

\* C28: the flag is read where a round begins: while it is set no resumption
\* of the Loader begins a round, and a resumption at the top of the loop
\* leaves the loop without a scroll command and takes the number of items
\* rendered at that moment as the count loadAllVideos returns
C28_CancelAtRoundTop ==
  [][\A r \in Runs :
       isCancelled /\ LoaderStep(r) =>
         /\ run'[r].pc # "L_settle"
         /\ run[r].pc \in {"L_top", "L_nudge"} =>
              /\ run'[r].pc = "L_final"
              /\ ScrollsIssued(r) = {}
              /\ run'[r].finalCount = VideoCount]_vars

\* the loop was left on the flag; items rendered since the last recorded
\* count are part of the count returned
C28_Witness ==
  /\ run[1].pc = "L_final" /\ run[1].exitReason = "cancel"
  /\ run[1].finalCount > run[1].lastCount
  /\ "scrollBottom" \notin run[1].acts


\* C29: lastCount never decreases within a run; a round that ends with fewer
\* items rendered than recorded keeps lastCount and prevScrollHeight, counts
\* as a round without growth, and goes on to the stop conditions as any such
\* round does
C29_LastCountMonotonic ==
  [][\A r \in Runs :
       /\ run[r].pc \in {"L_settle", "L_poll", "L_nudge"} /\ InLoader(run'[r])
            => run'[r].lastCount >= run[r].lastCount
       /\ WaitResumes(r) /\ run'[r].pc # "L_poll" /\ VideoCount < run[r].lastCount
            => /\ run'[r].lastCount = run[r].lastCount
               /\ run'[r].prevScrollHeight = run[r].prevScrollHeight
               /\ run'[r].noGrowCount = run[r].noGrowCount + 1
               /\ run'[r].pc \in {"L_nudge", "L_final"}]_vars

\* a round has ended on its first poll with fewer items rendered than
\* recorded, and was counted as a round without growth
C29_Witness ==
  /\ run[1].pc = "L_nudge" /\ VideoCount < run[1].lastCount
  /\ run[1].waited = POLL_INTERVAL /\ ~spinner
  /\ run[1].noGrowCount = 1


(***************************************************************************)
(* The Executor's runs                                                     *)
(***************************************************************************)

\* the last failure run r has recorded
LastFailed(rr) == rr.failed[Len(rr.failed)]

\* C31: an Executor run comes to its end: the menu wait always resolves, and
\* when it resolves with null the candidate is recorded as failed with 'Menu
\* popup not found', the run goes on with the next candidate and does not end
\* as a fault
C31_ExecutorTerminates ==
  /\ InExecutor(run[1]) ~> (run[1].pc = "done")
  /\ [][ExecMenuTimeout(1) =>
          /\ Len(run'[1].failed) = Len(run[1].failed) + 1
          /\ LastFailed(run'[1]).reasons = <<"Menu popup not found">>
          /\ LastFailed(run'[1]).cand = run[1].idx + 1
          /\ run'[1].idx = run[1].idx + 1
          /\ run'[1].outcome # "error"]_vars

\* a run has ended after the menu wait of its first candidate timed out
C31_Witness ==
  /\ run[1].pc = "done" /\ run[1].outcome # "error"
  /\ Len(run[1].failed) > 0
  /\ run[1].failed[1].reasons = <<"Menu popup not found">>


\* C32: however often content.js is injected into the page, one listener and
\* one flag exist once it has run: a ping gets one reply and a 'deleteVideos'
\* message starts one run
C32_InjectionIdempotent ==
  /\ ext.listeners = (IF ext.initialized THEN 1 ELSE 0)
  /\ ext.pingReady => ext.replies = 1
  /\ ext.started <= 1
  /\ ext.pc = "closed" /\ ext.sent # NoMessage => ext.started = 1

\* content.js has run in the page more than once and a 'deleteVideos' message
\* has been delivered
C32_Witness ==
  /\ ext.injections > 1 /\ ext.pc = "closed" /\ ext.sent # NoMessage
  /\ ext.replies = 1 /\ ext.started = 1 /\ ext.listeners = 1


(***************************************************************************)
(* The message listener                                                    *)
(***************************************************************************)

\* what a run of the page consists of
PageState == <<isCancelled, buttons, statusEl, pageVars, run, ext>>

\* message m has no filters, no logic, or an isDryRun that is no boolean
Lacking(m) ==
  \/ ~m.hasFilters
  \/ m.logic \in {"<undefined>", ""}
  \/ m.isDryRun \in {"<undefined>", "yes"}

\* C33: the listener answers a ping with 'ready' and a 'deleteVideos' that
\* lacks filters, logic or a boolean isDryRun with 'error', both without
\* starting a run or changing anything; it answers a well-formed
\* 'deleteVideos' with 'started', one run having started
C33_ListenerAnswers ==
  [][\A m \in Messages : OnMessage(1, m) =>
       IF m.action = "ping"
         THEN feOut' = <<[status |-> "ready"]>> /\ UNCHANGED PageState
       ELSE IF Lacking(m)
         THEN feOut' = <<[status |-> "error"]>> /\ UNCHANGED PageState
       ELSE /\ feOut' = <<[status |-> "started"]>>
            /\ Cardinality({r \in Runs : run'[r] # run[r]}) = 1
            /\ run[1].pc = "idle" /\ run'[1].pc = "L_top"
            /\ Len(buttons') = Len(buttons) + 1]_vars

\* a malformed message was answered with 'error' while a run was under way
C33_Witness ==
  /\ feIn # <<>> /\ feIn[1].action = "deleteVideos" /\ ~feIn[1].hasFilters
  /\ feOut = <<[status |-> "error"]>>
  /\ InExecutor(run[1])


(***************************************************************************)
(* The two logics of the Filter Engine                                     *)
(***************************************************************************)

\* the engine's output for the same items and FilterSpec under OR
UnderOr ==
  getVideosToDeleteAndReasons(feIn[1].videos, feIn[1].filters, "OR")

\* C34: every candidate selected under AND is selected under OR for the same
\* items and FilterSpec, with the same list of reasons
C34_AndWithinOr ==
  feOut # <<>> /\ feIn[1].logic = "AND" =>
    \A k \in 1..Len(feOut[1]) :
      \E j \in 1..Len(UnderOr) :
        /\ UnderOr[j].element = feOut[1][k].element
        /\ UnderOr[j].reasons = feOut[1][k].reasons

\* under AND one of two items is selected, with two reasons; under OR both are
C34_Witness ==
  /\ feOut # <<>> /\ feIn[1].logic = "AND"
  /\ Len(feOut[1]) = 1 /\ Len(feOut[1][1].reasons) = 2
  /\ Len(UnderOr) = 2


\* the candidates of run rr whose outcome has been recorded: those the loop
\* has left behind and, in a dry run, the one whose pause is not yet over
Completed(rr) == IF rr.pc = "E_dry" THEN rr.idx + 1 ELSE rr.idx

Processed(rr) == Len(rr.deleted) + Len(rr.failed)

\* the positions of the candidates in a list of blocks or failures
Positions(list) == {list[i].cand : i \in 1..Len(list)}

\* C35: throughout a run succeeded + failed is the number of candidates whose
\* outcome has been recorded and at most totalMatched; once the Executor has
\* built its result, succeeded + failed = totalMatched iff the loop was not
\* left on cancellation; no candidate is in both lists
C35_ProcessedCounts ==
  \A r \in Runs :
    /\ Processed(run[r]) = Completed(run[r])
    /\ Processed(run[r]) <= Len(run[r].candidates)
    /\ Summarised(r) =>
         (Processed(run[r]) = Len(run[r].candidates) <=> run[r].brokeAt < 0)
    /\ Positions(run[r].deleted) \cap Positions(run[r].failed) = {}

\* a real run over three candidates was cancelled within its second: one
\* removed, one failed, the third in neither list
C35_Witness ==
  /\ Summarised(1) /\ run[1].brokeAt = 2
  /\ Len(run[1].candidates) = 3
  /\ Len(run[1].deleted) = 1 /\ Len(run[1].failed) = 1


(***************************************************************************)
(* The cancellation flag and overlapping requests                          *)
(***************************************************************************)

\* run r ends in this step: the finally block of handleDeleteRequest
Ends(r) == run[r].pc \notin {"idle", "done"} /\ run'[r].pc = "done"

\* C36: once Cancel has set the flag, the flag is cleared only by the cleanup
\* of a run, never by a request that starts in the meantime
C36_CancelNotLost ==
  [][isCancelled /\ ~isCancelled' => \E r \in Runs : Ends(r)]_vars


\* C37: a round counts toward the no-growth threshold only when its whole
\* growth-wait window of WAIT_GROW_MS went by; a round whose wait was ended
\* early leaves noGrowCount as it was
C37_OnlyFullWaitsCount ==
  [][\A r \in Runs :
       WaitResumes(r) /\ run'[r].noGrowCount = run[r].noGrowCount + 1
         => run'[r].waited > WAIT_GROW_MS]_vars


(***************************************************************************)
(* The watched filter over extracted records                               *)
(***************************************************************************)

\* the thresholds the popup accepts for the percent criterion
ValidThresholds == 1..100

\* the watched filter pushes a reason for the extracted record
WatchedMatches(criteria, value) ==
  WatchedReasons(feOut[1], WatchedFilter(criteria, value)) # <<>>

\* C38: a record produced by extractVideoData with watchPercentage > 0 has
\* isWatched true, so a record that matches the watched filter in percent
\* mode with a threshold in 1..100 matches it in 'any' mode as well
C38_PercentWithinAny ==
  Extracted =>
    /\ feOut[1].watchPercentage > 0 => feOut[1].isWatched
    /\ \A v \in ValidThresholds :
         WatchedMatches("percent", v) => WatchedMatches("any", v)

\* a node with a resume overlay at 45% and no watched overlay was extracted:
\* it matches "at least 45%" and "any duration"
C38_Witness ==
  /\ Extracted
  /\ ~feIn[1].node.watched /\ feIn[1].width = 45
  /\ feOut[1].watchPercentage = 45 /\ feOut[1].isWatched
  /\ WatchedMatches("percent", 45) /\ WatchedMatches("any", 45)


(***************************************************************************)
(* The links of the report                                                 *)
(***************************************************************************)

\* the titles YouTube gives to a video that is no longer available
UnavailableTitles == {Str_Private, Str_Deleted}

\* the blocks of the report of run r, succeeded and failed
ReportBlocks(r) ==
  IF run[r].summary.kind = "full"
    THEN { run[r].summary.removed[i] : i \in 1..Len(run[r].summary.removed) }
           \cup { run[r].summary.failed[i] : i \in 1..Len(run[r].summary.failed) }
    ELSE {}

\* block b prints the link of its candidate exactly when the candidate has
\* one and its title is not one of the two unavailable titles
LinkRule(r, b) ==
  LET c == run[r].candidates[b.cand] IN
    /\ b.title = c.title
    /\ c.title \in UnavailableTitles => b.url = NoValue
    /\ c.title \notin UnavailableTitles => b.url = c.videoUrl

\* C39: in the report of a dry run or a real run, no block, succeeded or
\* failed, prints a URL for an item titled '[Private video]' or
\* '[Deleted video]'; every other block prints the URL iff its candidate has one
C39_NoLinkForUnavailable ==
  \A r \in Runs :
    /\ \A b \in ReportBlocks(r) : LinkRule(r, b)
    /\ \A i \in 1..Len(run[r].deleted) : LinkRule(r, run[r].deleted[i])

\* the report of a real run: the removal of a '[Private video]' item that
\* has a link failed and its block prints none, and the block of a removed
\* item prints its link
C39_Witness ==
  /\ run[1].summary.kind = "full" /\ ~run[1].isDryRun
  /\ \E i \in 1..Len(run[1].summary.failed) :
       LET b == run[1].summary.failed[i] IN
         /\ b.title = Str_Private /\ b.url = NoValue
         /\ run[1].candidates[b.cand].videoUrl # NoValue
  /\ \E i \in 1..Len(run[1].summary.removed) :
       run[1].summary.removed[i].url # NoValue

====
